---- MODULE Spec2Model ----
(***************************************************************************)
(* Model of the multi-stream file-transfer engine of the node controller   *)
(* (src/src/networking/file_transfer.rs): send_file with its range tasks   *)
(* and progress sampler, the TCP connections, and the receive handlers     *)
(* with their side-records (<file_id>.parts, <file_id>.hash) and the       *)
(* destination file.                                                       *)
(***************************************************************************)
EXTENDS Integers, Sequences, FiniteSets, TLC

\* ------------------------------------------------------------------ bounds
\* Spec: one send_file call to the server of the same manager.
MaxFileSize == 2
MaxChunkSize == 2
MaxStreams == 2
\* With a progress callback the log of events records the order of every
\* emission, so transfers observed by a callback are bounded more tightly.
MaxObservedStreams == 1
\* Ticks of the 100 ms progress sampler that are followed.
MaxTicks == 1
\* SpecPartition: the range partition as a function of its three inputs.
PartMaxFileSize == 9
PartMaxChunkSize == 3
PartMaxStreams == 4
\* SpecSend: send_file against an arbitrary peer.
SendMaxFileSize == 3
SendMaxChunkSize == 2
SendMaxStreams == 3
\* SpecReceive and SpecDeliver: the ranges of a transfer delivered by a client.
RecvMaxFileSize == 2
RecvMaxChunkSize == 2
RecvMaxStreams == 2
MaxConns == 2
MaxDeliveries == 3

\* ------------------------------------------------------------ value helpers
Min(a, b) == IF a < b THEN a ELSE b

\* (x as f64 / y as f64).ceil() as u64, for y >= 1 (exact below 2^53).
CeilDiv(x, y) == (x + y - 1) \div y

\* The bytes of the file being sent: byte at offset p (0-based) is p + 1, so
\* that every byte differs from the zero fill of set_len and from its
\* neighbours.
SourceBytes(size) == [p \in 1..size |-> p]

\* Sha256 of a byte string; the digest is kept as the tagged content
\* (collision-free).
FileHash(bytes) == <<"sha256", bytes>>

\* The file ids and names a header can carry.
FileIds == {"id1", "id2"}
FileNames == {"a.dat", "b.dat"}
SendFileId == "id1"
SendFileName == "a.dat"

\* ------------------------------------------------------- range partition
ChunkCount(fs, cs) == CeilDiv(fs, cs)
\* u64::MAX, the value of `f64::INFINITY as u64`; it exceeds every count of the model.
U64_MAX == 2147483647
\* ceil(chunk_count as f64 / concurrent_streams as f64) as u64: a division by
\* 0.0 gives NaN for 0 chunks (cast to 0) and infinity otherwise (cast saturates).
ChunksPerStream(cc, n) ==
    IF n = 0 THEN (IF cc = 0 THEN 0 ELSE U64_MAX) ELSE CeilDiv(cc, n)

StartChunk(idx, cps) == idx * cps
EndChunk(idx, cps, cc) == Min((idx + 1) * cps, cc)
StartPos(idx, cps, cs) == StartChunk(idx, cps) * cs
\* end_pos without the min against file_size (a variant the partition property rejects).
EndPosUnclamped(idx, cps, cc, cs, fs) == EndChunk(idx, cps, cc) * cs
EndPos(idx, cps, cc, cs, fs) == Min(EndChunk(idx, cps, cc) * cs, fs)

RECURSIVE RangeLoop(_, _, _, _, _, _)
RangeLoop(idx, n, cps, cc, cs, fs) ==
    IF idx >= n \/ StartChunk(idx, cps) >= EndChunk(idx, cps, cc)
    THEN << >>
    ELSE << <<StartPos(idx, cps, cs), EndPos(idx, cps, cc, cs, fs)>> >>
         \o RangeLoop(idx + 1, n, cps, cc, cs, fs)

\* The <<start_pos, end_pos>> of the stream tasks send_file spawns, in order.
SendRanges(fs, cs, n) ==
    LET cc == ChunkCount(fs, cs)
        cps == ChunksPerStream(cc, n)
    IN  RangeLoop(0, n, cps, cc, cs, fs)

\* ------------------------------------------------------------- the state
VARIABLES
    file_size,            \* length of the source file
    chunk_size,           \* config.chunk_size
    concurrent_streams,   \* config.concurrent_streams
    progress_callback,    \* config.progress_callback.is_some()
    sf,                   \* the send_file call: pc, awaited handle, errors, result
    ranges,               \* the ranges of the spawned stream tasks (handles)
    total_bytes_sent,     \* the shared sent-bytes counter
    sampler,              \* the progress task of send_file
    tasks,                \* the stream tasks, one per range (send_file_range)
    conns,                \* the TCP connections, one per stream task or delivery
    handlers,             \* the receive handlers, one per connection
    tracking,             \* file_id -> the <file_id>.parts side-record
    hash_record,          \* file_id -> the <file_id>.hash side-record
    dest,                 \* file_name -> the file in receive_dir
    events,               \* the events delivered to the progress callback
    hash_checks,          \* history: the whole-file hash verifications made
    delivered,            \* history of SpecDeliver: tracking after each delivery
    codec,                \* SpecCodec: one connection at the level of its bytes
    server,               \* the accept loop, shutdown_sender and the shutdown channel
    buffer_pool,          \* the Vec of pooled buffers (the length of each)
    pool_lock,            \* the handler holding the pool's mutex, 0 for none
    clock,                \* Instant::now(), in seconds
    discovered_nodes,     \* the peer registry: id -> (NodeInfo, Instant)
    last_resolved,        \* history: id -> the time its last advertisement parsed
    instance_of,          \* history: id -> the service name of that advertisement
    get_nodes,            \* the get_discovered_nodes call: pc, now, result
    listener,             \* the listener task of browse_services, and its history
    advertiser,           \* advertise_service and its refresh task
    selector,             \* a get_best_interface call: the OS's answer, the result
    comparison,           \* a comparison of two Versions: operands, ==, cmp
    updater               \* the UpdateManager: its loop, its status, the update applied

vars == <<file_size, chunk_size, concurrent_streams, progress_callback, sf,
          ranges, total_bytes_sent, sampler, tasks, conns, handlers, tracking,
          hash_record, dest, events, hash_checks, delivered, codec, server, buffer_pool, pool_lock,
          clock, discovered_nodes, last_resolved, instance_of, get_nodes,
          listener, advertiser, selector, comparison, updater>>

config_vars == <<file_size, chunk_size, concurrent_streams, progress_callback>>
sender_vars == <<sf, ranges, total_bytes_sent, sampler, tasks>>
disk_vars == <<tracking, hash_record, dest>>
pool_vars == <<buffer_pool, pool_lock>>
updater_vars == <<comparison, updater>>
discovery_vars == <<clock, discovered_nodes, last_resolved, instance_of, get_nodes,
                    listener, advertiser, selector>>

\* ------------------------------------------------------------ records
NoParts == [k \in {} |-> FALSE]
AbsentRecord == [exists |-> FALSE, parts |-> NoParts]
AbsentHash == [exists |-> FALSE, hash |-> << >>]
AbsentFile == [exists |-> FALSE, bytes |-> << >>]

NoHeader == [sent |-> FALSE, file_id |-> "", file_name |-> "", file_size |-> 0,
             start_pos |-> 0, end_pos |-> 0, file_hash |-> << >>]

NewConn == [established |-> FALSE, header |-> NoHeader, data |-> << >>,
            closed |-> FALSE]

NewHandler == [pc |-> "none", file_id |-> "", file_name |-> "", file_size |-> 0,
               start_pos |-> 0, end_pos |-> 0, exists |-> FALSE,
               parts |-> NoParts, offset |-> 0, bytes_received |-> 0, error |-> ""]

NoResult == [status |-> "none", file_id |-> "", msg |-> "", streams |-> << >>]

Event(type, by, conn, bytes, error) ==
    [type |-> type, by |-> by, conn |-> conn, bytes |-> bytes, error |-> error]

\* callback(status) when config.progress_callback is Some.
Emit(log, e) == IF progress_callback THEN Append(log, e) ELSE log

SetAt(seq, i, v) == [seq EXCEPT ![i] = v]

\* ------------------------------------------------------------- send_file
\* send_file up to the spawn of the stream tasks: metadata, hash, Started,
\* the progress task and one stream task per range.
SendFileStart ==
    /\ sf.pc = "call"
    /\ ranges' = SendRanges(file_size, chunk_size, concurrent_streams)
    /\ events' = Emit(events, Event("Started", "send_file", 0, file_size, << >>))
    /\ sampler' = [sampler EXCEPT !.pc = IF progress_callback THEN "tick" ELSE "none"]
    /\ tasks' = [i \in 1..Len(ranges') |->
                    [pc |-> "connect", start_pos |-> ranges'[i][1],
                     end_pos |-> ranges'[i][2], position |-> ranges'[i][1]]]
    /\ conns' = [i \in 1..Len(ranges') |-> NewConn]
    /\ handlers' = [i \in 1..Len(ranges') |-> NewHandler]
    /\ sf' = [sf EXCEPT !.pc = "await", !.next = 1]
    /\ UNCHANGED <<config_vars, updater_vars, discovery_vars, server, pool_vars, codec, total_bytes_sent, disk_vars, hash_checks, delivered>>

\* fs::metadata(path)? or calculate_file_hash(path)? fails: send_file returns the
\* error before any event and any task.
SendFileNoSource ==
    /\ sf.pc = "call"
    /\ sf' = [sf EXCEPT !.pc = "returned",
                        !.result = [status |-> "err", file_id |-> "",
                                    msg |-> "Failed to get metadata for file",
                                    streams |-> << >>]]
    /\ UNCHANGED <<config_vars, updater_vars, discovery_vars, server, pool_vars, codec, ranges, total_bytes_sent, sampler, tasks, conns,
                   handlers, disk_vars, events, hash_checks, delivered>>

\* One iteration of the progress task: the tick, then the read of the counter.
SamplerTick ==
    /\ sampler.pc = "tick"
    /\ ~sampler.aborted
    /\ sampler.ticks < MaxTicks
    /\ sampler' = [sampler EXCEPT
                     !.pc = IF total_bytes_sent >= file_size THEN "done" ELSE "emit",
                     !.bytes_sent = IF total_bytes_sent >= file_size THEN 0
                                    ELSE total_bytes_sent,
                     !.ticks = @ + 1]
    /\ UNCHANGED <<config_vars, updater_vars, discovery_vars, server, pool_vars, codec, sf, ranges, total_bytes_sent, tasks, conns, handlers,
                   disk_vars, events, hash_checks, delivered>>

\* The callback of the iteration; a poll that is running is not interrupted by
\* abort(), which takes effect at the next await.
SamplerEmit ==
    /\ sampler.pc = "emit"
    /\ events' = Emit(events, Event("Progress", "sampler", 0, sampler.bytes_sent, << >>))
    /\ sampler' = [sampler EXCEPT !.pc = "tick", !.bytes_sent = 0]
    /\ UNCHANGED <<config_vars, updater_vars, discovery_vars, server, pool_vars, codec, sf, ranges, total_bytes_sent, tasks, conns, handlers,
                   disk_vars, hash_checks, delivered>>

\* --------------------------------------------------------- send_file_range
StreamConnect(i) ==
    /\ tasks[i].pc = "connect"
    /\ tasks' = SetAt(tasks, i, [tasks[i] EXCEPT !.pc = "header"])
    /\ conns' = SetAt(conns, i, [conns[i] EXCEPT !.established = TRUE])
    /\ UNCHANGED <<config_vars, updater_vars, discovery_vars, server, pool_vars, codec, sf, ranges, total_bytes_sent, sampler, handlers,
                   disk_vars, events, hash_checks, delivered>>

\* A variant in which the failure of one task cancels the unfinished siblings.
TaskEndsAbortingSiblings(ts, i, how) ==
    [j \in 1..Len(ts) |->
        IF j = i \/ ts[j].pc \in {"connect", "header", "send"}
        THEN [ts[j] EXCEPT !.pc = how] ELSE ts[j]]

\* The spawned task of stream i ends (Err from a `?`, or a panic): only its own
\* JoinHandle gets the outcome, the sibling tasks are separate tokio tasks.
TaskEnds(ts, i, how) == [ts EXCEPT ![i] = [ts[i] EXCEPT !.pc = how]]

\* TcpStream::connect fails: the task ends with the error.
StreamConnectFail(i) ==
    /\ tasks[i].pc = "connect"
    /\ tasks' = TaskEnds(tasks, i, "err")
    /\ UNCHANGED <<config_vars, updater_vars, discovery_vars, server, pool_vars, codec, sf, ranges, total_bytes_sent, sampler, conns, handlers,
                   disk_vars, events, hash_checks, delivered>>

HeaderOf(i) ==
    [sent |-> TRUE, file_id |-> SendFileId, file_name |-> SendFileName,
     file_size |-> file_size, start_pos |-> tasks[i].start_pos,
     end_pos |-> tasks[i].end_pos, file_hash |-> FileHash(SourceBytes(file_size))]

StreamSendHeader(i) ==
    /\ tasks[i].pc = "header"
    /\ tasks' = SetAt(tasks, i, [tasks[i] EXCEPT !.pc = "send"])
    /\ conns' = SetAt(conns, i, [conns[i] EXCEPT !.header = HeaderOf(i)])
    /\ UNCHANGED <<config_vars, updater_vars, discovery_vars, server, pool_vars, codec, sf, ranges, total_bytes_sent, sampler, handlers,
                   disk_vars, events, hash_checks, delivered>>

\* The bytes one iteration of the send loop reads from the file.
SendCount(i) == Min(chunk_size, tasks[i].end_pos - tasks[i].position)

\* One iteration of the send loop: read, write_all, position and counter.
StreamSend(i) ==
    /\ tasks[i].pc = "send"
    /\ tasks[i].position < tasks[i].end_pos
    /\ LET n == SendCount(i)
           bytes == SubSeq(SourceBytes(file_size), tasks[i].position + 1,
                           tasks[i].position + n)
       IN  /\ conns' = SetAt(conns, i, [conns[i] EXCEPT !.data = @ \o bytes])
           /\ tasks' = SetAt(tasks, i, [tasks[i] EXCEPT !.position = @ + n])
           /\ total_bytes_sent' = total_bytes_sent + n
    /\ UNCHANGED <<config_vars, updater_vars, discovery_vars, server, pool_vars, codec, sf, ranges, sampler, handlers, disk_vars, events,
                   hash_checks, delivered>>

\* A write_all on the socket fails (header or payload): the task ends with the
\* error and its socket is dropped.
StreamWriteFail(i) ==
    /\ tasks[i].pc \in {"header", "send"}
    /\ tasks[i].position < tasks[i].end_pos
    /\ tasks' = TaskEnds(tasks, i, "err")
    /\ conns' = SetAt(conns, i, [conns[i] EXCEPT !.closed = TRUE])
    /\ UNCHANGED <<config_vars, updater_vars, discovery_vars, server, pool_vars, codec, sf, ranges, total_bytes_sent, sampler, handlers,
                   disk_vars, events, hash_checks, delivered>>

\* The loop has ended: Ok(()), the socket is dropped.
StreamFinish(i) ==
    /\ tasks[i].pc = "send"
    /\ tasks[i].position >= tasks[i].end_pos
    /\ tasks' = SetAt(tasks, i, [tasks[i] EXCEPT !.pc = "ok"])
    /\ conns' = SetAt(conns, i, [conns[i] EXCEPT !.closed = TRUE])
    /\ UNCHANGED <<config_vars, updater_vars, discovery_vars, server, pool_vars, codec, sf, ranges, total_bytes_sent, sampler, handlers,
                   disk_vars, events, hash_checks, delivered>>

\* The task ends without a result (JoinError): its socket is dropped.
StreamPanic(i) ==
    /\ tasks[i].pc = "send"
    /\ tasks' = TaskEnds(tasks, i, "panic")
    /\ conns' = SetAt(conns, i, [conns[i] EXCEPT !.closed = TRUE])
    /\ UNCHANGED <<config_vars, updater_vars, discovery_vars, server, pool_vars, codec, sf, ranges, total_bytes_sent, sampler, handlers,
                   disk_vars, events, hash_checks, delivered>>

\* --------------------------------------------- send_file: await and report
ErrorEntry(i, what) == [stream |-> i, what |-> what]

\* The errors vector after handle i (0-based) has been awaited.
AwaitErrors(errors, i, pc) ==
    IF pc = "err" THEN Append(errors, ErrorEntry(i, "failed"))
    ELSE IF pc = "panic" THEN Append(errors, ErrorEntry(i, "task panicked"))
    ELSE errors

\* success left untouched by a failed task (a variant the terminal-event property rejects).
AwaitSuccessKept(success, pc) == success
AwaitSuccess(success, pc) == success /\ pc = "ok"

AwaitHandle ==
    /\ sf.pc = "await"
    /\ sf.next <= Len(tasks)
    /\ tasks[sf.next].pc \in {"ok", "err", "panic"}
    /\ sf' = [sf EXCEPT
                !.success = AwaitSuccess(sf.success, tasks[sf.next].pc),
                !.errors = AwaitErrors(sf.errors, sf.next - 1, tasks[sf.next].pc),
                !.next = @ + 1]
    /\ UNCHANGED <<config_vars, updater_vars, discovery_vars, server, pool_vars, codec, ranges, total_bytes_sent, sampler, tasks, conns,
                   handlers, disk_vars, events, hash_checks, delivered>>

\* All handles awaited: progress_task.abort().
AbortSampler ==
    /\ sf.pc = "await"
    /\ sf.next > Len(tasks)
    /\ sampler' = [sampler EXCEPT !.aborted = progress_callback]
    /\ sf' = [sf EXCEPT !.pc = "report"]
    /\ UNCHANGED <<config_vars, updater_vars, discovery_vars, server, pool_vars, codec, ranges, total_bytes_sent, tasks, conns, handlers,
                   disk_vars, events, hash_checks, delivered>>

\* The final status handed to the callback.
FinalEvent(success, errors) ==
    IF success
    THEN Event("Completed", "send_file", 0, file_size, << >>)
    ELSE Event("Failed", "send_file", 0, 0, errors)

ReportFinal ==
    /\ sf.pc = "report"
    /\ events' = Emit(events, FinalEvent(sf.success, sf.errors))
    /\ sf' = [sf EXCEPT !.pc = "return"]
    /\ UNCHANGED <<config_vars, updater_vars, discovery_vars, server, pool_vars, codec, ranges, total_bytes_sent, sampler, tasks, conns,
                   handlers, disk_vars, hash_checks, delivered>>

\* The value send_file returns: Ok(file_id) or Err(anyhow!("File transfer failed")).
ReturnValue(success, errors) ==
    IF success
    THEN [status |-> "ok", file_id |-> SendFileId, msg |-> "", streams |-> << >>]
    ELSE [status |-> "err", file_id |-> "", msg |-> "File transfer failed",
          streams |-> << >>]

SendFileReturn ==
    /\ sf.pc = "return"
    /\ sf' = [sf EXCEPT !.pc = "returned", !.result = ReturnValue(sf.success, sf.errors)]
    /\ UNCHANGED <<config_vars, updater_vars, discovery_vars, server, pool_vars, codec, ranges, total_bytes_sent, sampler, tasks, conns,
                   handlers, disk_vars, events, hash_checks, delivered>>

\* ----------------------------------------------------- handle_incoming_file
HandlerStep(i, h) ==
    handlers' = SetAt(handlers, i, h)

\* A handler returns Err: its socket is dropped with it.
HandlerFailed(i, why) ==
    [handlers[i] EXCEPT !.pc = "failed", !.error = why, !.exists = FALSE,
                        !.parts = NoParts]

\* ------------------------------------------------ start_server, stop_server
\* Bound of SpecStop: the calls of stop_server.
MaxStopCalls == 2

\* Bound of SpecStart: the calls of start_server that fail to bind.
MaxFailedStarts == 1

\* After start_server: the accept loop runs, shutdown_sender is Some(tx) with
\* tx the sender of the loop's channel (sender_live), the channel is empty and
\* not closed.
NewServer == [accepting |-> TRUE, shutdown_sender |-> TRUE, sender_live |-> TRUE,
              signal |-> 0, closed |-> FALSE, stop_calls |-> 0, failed_starts |-> 0]

\* A listener that outlives the accept loop.
AcceptingAlways(srv) == TRUE

\* listener.accept() can be polled: the accept loop has not left its loop.
Accepting(srv) == srv.accepting

\* A shutdown that cancels the handler tasks still running.
HandlersAbortedAtShutdown(hs) ==
    [i \in 1..Len(hs) |->
        IF hs[i].pc \in {"none", "done", "failed"} THEN hs[i]
        ELSE [hs[i] EXCEPT !.pc = "failed", !.error = "cancelled"]]

\* The handler tasks when the accept loop breaks: they were spawned detached
\* (their JoinHandles dropped), so the end of the loop task leaves them alone.
HandlersAtShutdown(hs) == hs

\* stop_server: shutdown_sender.take(), and tx.send(()) on the channel of
\* capacity 1 if there was a sender. The sender is used once, so the send
\* finds room, or finds the receiver gone and its error is ignored.
StopServer ==
    /\ server.stop_calls < MaxStopCalls
    /\ server' = [server EXCEPT
                    !.shutdown_sender = FALSE,
                    !.signal = IF server.shutdown_sender /\ server.sender_live
                                  /\ server.accepting
                               THEN 1 ELSE @,
                    !.stop_calls = @ + 1]
    /\ UNCHANGED <<config_vars, updater_vars, discovery_vars, codec, pool_vars, sender_vars, conns, handlers,
                   disk_vars, events, hash_checks, delivered>>

\* start_server whose TcpListener::bind fails: the new sender has replaced
\* shutdown_sender before the bind, which drops the sender of the running
\* loop and so closes its channel; the `?` then drops the new receiver.
StartServerFails ==
    /\ server.failed_starts < MaxFailedStarts
    /\ server' = [server EXCEPT
                    !.closed = @ \/ (server.shutdown_sender /\ server.sender_live),
                    !.shutdown_sender = TRUE,
                    !.sender_live = FALSE,
                    !.failed_starts = @ + 1]
    /\ UNCHANGED <<config_vars, updater_vars, discovery_vars, codec, pool_vars, sender_vars, conns, handlers,
                   disk_vars, events, hash_checks, delivered>>

\* The rx.recv() branch of the select, taken on a message and on None (the
\* channel closed): the loop breaks, the listener is dropped.
AcceptLoopShutdown ==
    /\ server.accepting
    /\ server.signal > 0 \/ server.closed
    /\ server' = [server EXCEPT !.accepting = FALSE, !.signal = 0]
    /\ handlers' = HandlersAtShutdown(handlers)
    /\ UNCHANGED <<config_vars, updater_vars, discovery_vars, codec, pool_vars, sender_vars, conns, disk_vars,
                   events, hash_checks, delivered>>

\* The accept loop of start_server: one handler task per accepted connection.
Accept(i) ==
    /\ Accepting(server)
    /\ handlers[i].pc = "none"
    /\ conns[i].established
    /\ HandlerStep(i, [handlers[i] EXCEPT !.pc = "header"])
    /\ UNCHANGED <<config_vars, updater_vars, discovery_vars, server, pool_vars, codec, sender_vars, conns, disk_vars, events, hash_checks,
                   delivered>>

\* The header is read (read_exact of every field) and Started is emitted; a
\* socket closed before the header is complete ends the handler with the error.
ReadHeader(i) ==
    /\ handlers[i].pc = "header"
    /\ conns[i].header.sent \/ conns[i].closed
    /\ LET hd == conns[i].header
       IN  IF hd.sent
           THEN /\ HandlerStep(i, [handlers[i] EXCEPT
                        !.pc = "hash", !.file_id = hd.file_id,
                        !.file_name = hd.file_name, !.file_size = hd.file_size,
                        !.start_pos = hd.start_pos, !.end_pos = hd.end_pos])
                /\ events' = Emit(events, Event("Started", "handler", i, hd.file_size, << >>))
           ELSE /\ HandlerStep(i, HandlerFailed(i, "early eof"))
                /\ UNCHANGED events
    /\ UNCHANGED <<config_vars, updater_vars, discovery_vars, server, pool_vars, codec, sender_vars, conns, disk_vars, hash_checks, delivered>>

\* if !hash_tracking_path.exists() { fs::write(hash_tracking_path, expected_hash) }
StoreHash(i) ==
    /\ handlers[i].pc = "hash"
    /\ LET fid == handlers[i].file_id
       IN  hash_record' =
             IF hash_record[fid].exists THEN hash_record
             ELSE [hash_record EXCEPT
                     ![fid] = [exists |-> TRUE, hash |-> conns[i].header.file_hash]]
    /\ HandlerStep(i, [handlers[i] EXCEPT !.pc = "reg_exists"])
    /\ UNCHANGED <<config_vars, updater_vars, discovery_vars, server, pool_vars, codec, sender_vars, conns, tracking, dest, events,
                   hash_checks, delivered>>

RangeKey(h) == <<h.start_pos, h.end_pos>>

\* An insert that keeps an existing value (a variant the idempotence property rejects).
InsertIfAbsent(parts, key, value) ==
    [k \in DOMAIN parts \cup {key} |-> IF k \in DOMAIN parts THEN parts[k] ELSE value]
\* parts.insert(key, value) of the HashMap read from the tracking file.
Insert(parts, key, value) ==
    [k \in DOMAIN parts \cup {key} |-> IF k = key THEN value ELSE parts[k]]

\* parts.values().all(|&complete| complete)
AllComplete(parts, key) == \A k \in DOMAIN parts : parts[k]

\* tracking_path.exists() of the first read-modify-write.
RegExists(i) ==
    /\ handlers[i].pc = "reg_exists"
    /\ HandlerStep(i, [handlers[i] EXCEPT
            !.pc = "reg_read", !.exists = tracking[handlers[i].file_id].exists])
    /\ UNCHANGED <<config_vars, updater_vars, discovery_vars, server, pool_vars, codec, sender_vars, conns, disk_vars, events, hash_checks,
                   delivered>>

\* fs::read_to_string(tracking_path)? when the file was seen, else an empty map.
ReadParts(i, next) ==
    LET rec == tracking[handlers[i].file_id]
    IN  IF ~handlers[i].exists
        THEN [handlers[i] EXCEPT !.pc = next, !.parts = NoParts]
        ELSE IF rec.exists
        THEN [handlers[i] EXCEPT !.pc = next, !.parts = rec.parts, !.exists = FALSE]
        ELSE HandlerFailed(i, "No such file or directory")

RegRead(i) ==
    /\ handlers[i].pc = "reg_read"
    /\ HandlerStep(i, ReadParts(i, "reg_write"))
    /\ UNCHANGED <<config_vars, updater_vars, discovery_vars, server, pool_vars, codec, sender_vars, conns, disk_vars, events, hash_checks,
                   delivered>>

\* parts.insert(range_key, false); fs::write(tracking_path, parts)
RegWrite(i) ==
    /\ handlers[i].pc = "reg_write"
    /\ tracking' = [tracking EXCEPT ![handlers[i].file_id] =
                      [exists |-> TRUE,
                       parts |-> Insert(handlers[i].parts, RangeKey(handlers[i]), FALSE)]]
    /\ HandlerStep(i, [handlers[i] EXCEPT !.pc = "prep_exists", !.parts = NoParts])
    /\ UNCHANGED <<config_vars, updater_vars, discovery_vars, server, pool_vars, codec, sender_vars, conns, hash_record, dest, events,
                   hash_checks, delivered>>

\* ------------------------------------------------ the destination file
\* file.set_len(size): truncate, or extend with zero bytes.
Resize(bytes, size) ==
    [p \in 1..size |-> IF p <= Len(bytes) THEN bytes[p] ELSE 0]

\* write_all(data) at the offset of the handler's file handle.
WriteAt(bytes, offset, data) ==
    [p \in 1..(IF offset + Len(data) > Len(bytes) THEN offset + Len(data) ELSE Len(bytes)) |->
        IF p > offset /\ p <= offset + Len(data) THEN data[p - offset]
        ELSE IF p <= Len(bytes) THEN bytes[p]
        ELSE 0]

\* file_path.exists()
PrepExists(i) ==
    /\ handlers[i].pc = "prep_exists"
    /\ HandlerStep(i, [handlers[i] EXCEPT
            !.pc = IF dest[handlers[i].file_name].exists THEN "open" ELSE "create"])
    /\ UNCHANGED <<config_vars, updater_vars, discovery_vars, server, pool_vars, codec, sender_vars, conns, disk_vars, events, hash_checks,
                   delivered>>

\* File::create(file_path): the file is created, or truncated when it exists.
CreateFile(i) ==
    /\ handlers[i].pc = "create"
    /\ dest' = [dest EXCEPT ![handlers[i].file_name] = [exists |-> TRUE, bytes |-> << >>]]
    /\ HandlerStep(i, [handlers[i] EXCEPT !.pc = "set_len"])
    /\ UNCHANGED <<config_vars, updater_vars, discovery_vars, server, pool_vars, codec, sender_vars, conns, tracking, hash_record, events,
                   hash_checks, delivered>>

\* File::options().read(true).write(true).open(file_path), then the length check.
OpenFile(i) ==
    /\ handlers[i].pc = "open"
    /\ HandlerStep(i, [handlers[i] EXCEPT
            !.pc = IF Len(dest[handlers[i].file_name].bytes) # handlers[i].file_size
                   THEN "set_len" ELSE "take",
            !.offset = handlers[i].start_pos])
    /\ UNCHANGED <<config_vars, updater_vars, discovery_vars, server, pool_vars, codec, sender_vars, conns, disk_vars, events, hash_checks,
                   delivered>>

\* file.set_len(file_size), then seek(SeekFrom::Start(start_pos)).
SetLen(i) ==
    /\ handlers[i].pc = "set_len"
    /\ dest' = [dest EXCEPT ![handlers[i].file_name].bytes =
                  Resize(@, handlers[i].file_size)]
    /\ HandlerStep(i, [handlers[i] EXCEPT !.pc = "take", !.offset = handlers[i].start_pos])
    /\ UNCHANGED <<config_vars, updater_vars, discovery_vars, server, pool_vars, codec, sender_vars, conns, tracking, hash_record, events,
                   hash_checks, delivered>>

\* ---------------------------------------------------------- the buffer pool
BUFFER_POOL_SIZE == 8

\* FileTransferManager::new: BUFFER_POOL_SIZE buffers of chunk_size bytes.
NewPool(size) == [k \in 1..BUFFER_POOL_SIZE |-> size]

\* pool.push(buffer) after the buffer was resized to len bytes.
PoolPush(pool, len) == Append(pool, len)

\* let mut buffer = if let Ok(mut pool) = buffer_pool.try_lock(): the mutex is
\* taken if it is free; if another handler holds it a new buffer is made.
TakeTryLock(i) ==
    /\ handlers[i].pc = "take"
    /\ pool_lock' = IF pool_lock = 0 THEN i ELSE pool_lock
    /\ HandlerStep(i, [handlers[i] EXCEPT
            !.pc = IF pool_lock = 0 THEN "pop" ELSE "copy"])
    /\ UNCHANGED <<config_vars, updater_vars, discovery_vars, server, codec, buffer_pool, sender_vars, conns,
                   disk_vars, events, hash_checks, delivered>>

\* pool.pop().unwrap_or_else(|| vec![0u8; chunk_size]); the guard is dropped.
PopBuffer(i) ==
    /\ handlers[i].pc = "pop"
    /\ buffer_pool' = SubSeq(buffer_pool, 1, Len(buffer_pool) - 1)
    /\ pool_lock' = 0
    /\ HandlerStep(i, [handlers[i] EXCEPT !.pc = "copy"])
    /\ UNCHANGED <<config_vars, updater_vars, discovery_vars, server, codec, sender_vars, conns, disk_vars,
                   events, hash_checks, delivered>>

\* ----------------------------------------------------------- the copy loop
Remaining(h) == (h.end_pos - h.start_pos) - h.bytes_received

\* The bytes one socket.read may return: at least one, at most the buffer, what
\* is left of the range and what has arrived.
ReadCounts(i) ==
    1..Min(Min(chunk_size, Remaining(handlers[i])), Len(conns[i].data))

\* One iteration: socket.read, write_all to the file, Progress.
CopyChunk(i) ==
    /\ handlers[i].pc = "copy"
    /\ Remaining(handlers[i]) > 0
    /\ \E n \in ReadCounts(i) :
         LET h == handlers[i]
             data == SubSeq(conns[i].data, 1, n)
         IN  /\ conns' = SetAt(conns, i, [conns[i] EXCEPT
                              !.data = SubSeq(@, n + 1, Len(@))])
             /\ dest' = [dest EXCEPT ![h.file_name].bytes = WriteAt(@, h.offset, data)]
             /\ HandlerStep(i, [h EXCEPT !.offset = @ + n, !.bytes_received = @ + n])
             /\ events' = Emit(events, Event("Progress", "handler", i,
                                             h.start_pos + h.bytes_received + n, << >>))
    /\ UNCHANGED <<config_vars, updater_vars, discovery_vars, server, pool_vars, codec, sender_vars, tracking, hash_record, hash_checks,
                   delivered>>

\* socket.read returns 0 before the range is complete: "Connection closed
\* prematurely".
CopyEof(i) ==
    /\ handlers[i].pc = "copy"
    /\ Remaining(handlers[i]) > 0
    /\ conns[i].data = << >>
    /\ conns[i].closed
    /\ HandlerStep(i, HandlerFailed(i, "Connection closed prematurely"))
    /\ UNCHANGED <<config_vars, updater_vars, discovery_vars, server, pool_vars, codec, sender_vars, conns, disk_vars, events, hash_checks,
                   delivered>>

\* The loop has ended: Completed is emitted for this connection.
CopyDone(i) ==
    /\ handlers[i].pc = "copy"
    /\ Remaining(handlers[i]) = 0
    /\ events' = Emit(events, Event("Completed", "handler", i,
                                    handlers[i].start_pos + handlers[i].bytes_received,
                                    << >>))
    /\ HandlerStep(i, [handlers[i] EXCEPT !.pc = "give"])
    /\ UNCHANGED <<config_vars, updater_vars, discovery_vars, server, pool_vars, codec, sender_vars, conns, disk_vars, hash_checks, delivered>>

\* Return buffer to pool: buffer_pool.try_lock(). If the mutex is held the
\* buffer is dropped.
GiveTryLock(i) ==
    /\ handlers[i].pc = "give"
    /\ pool_lock' = IF pool_lock = 0 THEN i ELSE pool_lock
    /\ HandlerStep(i, [handlers[i] EXCEPT
            !.pc = IF pool_lock = 0 THEN "push" ELSE "fin_exists"])
    /\ UNCHANGED <<config_vars, updater_vars, discovery_vars, server, codec, buffer_pool, sender_vars, conns,
                   disk_vars, events, hash_checks, delivered>>

\* buffer.clear(); buffer.resize(chunk_size, 0); pool.push(buffer); the guard
\* is dropped.
PushBuffer(i) ==
    /\ handlers[i].pc = "push"
    /\ buffer_pool' = PoolPush(buffer_pool, chunk_size)
    /\ pool_lock' = 0
    /\ HandlerStep(i, [handlers[i] EXCEPT !.pc = "fin_exists"])
    /\ UNCHANGED <<config_vars, updater_vars, discovery_vars, server, codec, sender_vars, conns, disk_vars,
                   events, hash_checks, delivered>>

\* ------------------------------------- mark complete, verify and clean up
\* tracking_path.exists() of the second read-modify-write.
FinExists(i) ==
    /\ handlers[i].pc = "fin_exists"
    /\ HandlerStep(i, [handlers[i] EXCEPT
            !.pc = "fin_read", !.exists = tracking[handlers[i].file_id].exists])
    /\ UNCHANGED <<config_vars, updater_vars, discovery_vars, server, pool_vars, codec, sender_vars, conns, disk_vars, events, hash_checks,
                   delivered>>

FinRead(i) ==
    /\ handlers[i].pc = "fin_read"
    /\ HandlerStep(i, ReadParts(i, "fin_write"))
    /\ UNCHANGED <<config_vars, updater_vars, discovery_vars, server, pool_vars, codec, sender_vars, conns, disk_vars, events, hash_checks,
                   delivered>>

\* parts.insert(range_key, true); all_complete; fs::write(tracking_path, parts)
FinWrite(i) ==
    /\ handlers[i].pc = "fin_write"
    /\ LET parts == Insert(handlers[i].parts, RangeKey(handlers[i]), TRUE)
       IN  /\ tracking' = [tracking EXCEPT ![handlers[i].file_id] =
                             [exists |-> TRUE, parts |-> parts]]
           /\ HandlerStep(i, [handlers[i] EXCEPT
                    !.parts = NoParts,
                    !.pc = IF AllComplete(parts, RangeKey(handlers[i]))
                           THEN "verify" ELSE "done"])
    /\ UNCHANGED <<config_vars, updater_vars, discovery_vars, server, pool_vars, codec, sender_vars, conns, hash_record, dest, events,
                   hash_checks, delivered>>

\* The comparison of calculate_file_hash(file_path) with the stored hash.
HashCheck(i) ==
    LET h == handlers[i]
    IN  [conn |-> i, file_id |-> h.file_id,
         ok |-> FileHash(dest[h.file_name].bytes) = hash_record[h.file_id].hash]

\* if hash_tracking_path.exists() { ... } of the verification.
VerifyHash(i) ==
    /\ handlers[i].pc = "verify"
    /\ HandlerStep(i, [handlers[i] EXCEPT
            !.pc = IF hash_record[handlers[i].file_id].exists
                   THEN "verify_read" ELSE "rm_tracking"])
    /\ UNCHANGED <<config_vars, updater_vars, discovery_vars, server, pool_vars, codec, sender_vars, conns, disk_vars, events, hash_checks,
                   delivered>>

\* fs::read_to_string(hash_tracking_path)?, calculate_file_hash, the comparison.
VerifyRead(i) ==
    /\ handlers[i].pc = "verify_read"
    /\ IF hash_record[handlers[i].file_id].exists
       THEN /\ hash_checks' = Append(hash_checks, HashCheck(i))
            /\ HandlerStep(i, [handlers[i] EXCEPT !.pc = "rm_tracking"])
       ELSE /\ HandlerStep(i, HandlerFailed(i, "No such file or directory"))
            /\ UNCHANGED hash_checks
    /\ UNCHANGED <<config_vars, updater_vars, discovery_vars, server, pool_vars, codec, sender_vars, conns, disk_vars, events, delivered>>

\* fs::remove_file(tracking_path)
RemoveTracking(i) ==
    /\ handlers[i].pc = "rm_tracking"
    /\ tracking' = [tracking EXCEPT ![handlers[i].file_id] = AbsentRecord]
    /\ HandlerStep(i, [handlers[i] EXCEPT !.pc = "rm_hash"])
    /\ UNCHANGED <<config_vars, updater_vars, discovery_vars, server, pool_vars, codec, sender_vars, conns, hash_record, dest, events,
                   hash_checks, delivered>>

\* fs::remove_file(hash_tracking_path); Ok(())
RemoveHash(i) ==
    /\ handlers[i].pc = "rm_hash"
    /\ hash_record' = [hash_record EXCEPT ![handlers[i].file_id] = AbsentHash]
    /\ HandlerStep(i, [handlers[i] EXCEPT !.pc = "done"])
    /\ UNCHANGED <<config_vars, updater_vars, discovery_vars, server, pool_vars, codec, sender_vars, conns, tracking, dest, events,
                   hash_checks, delivered>>

\* ------------------------------------------------ a client of the server
\* The connection of a client that wrote the header of range r of the transfer
\* and the first len bytes of its payload, and closed the socket.
ClientConn(r, len) ==
    [established |-> TRUE,
     header |-> [sent |-> TRUE, file_id |-> SendFileId, file_name |-> SendFileName,
                 file_size |-> file_size, start_pos |-> r[1], end_pos |-> r[2],
                 file_hash |-> FileHash(SourceBytes(file_size))],
     data |-> SubSeq(SourceBytes(file_size), r[1] + 1, r[1] + len),
     closed |-> TRUE]

HandlerFinished(i) == handlers[i].pc \in {"done", "failed"}

\* The bytes of the file of a second sender: they differ from SourceBytes and
\* from the zero fill at every offset.
OtherFileId == "id2"
OtherBytes(size) == [p \in 1..size |-> p + 10]

\* The connection of a client of a second transfer (its own file_id, a file
\* of the same length) that names its file `name`.
OtherConn(r, len, name) ==
    [established |-> TRUE,
     header |-> [sent |-> TRUE, file_id |-> OtherFileId, file_name |-> name,
                 file_size |-> file_size, start_pos |-> r[1], end_pos |-> r[2],
                 file_hash |-> FileHash(OtherBytes(file_size))],
     data |-> SubSeq(OtherBytes(file_size), r[1] + 1, r[1] + len),
     closed |-> TRUE]

DeliverOther(r, len, name) ==
    /\ Len(conns) < MaxConns
    /\ conns' = Append(conns, OtherConn(r, len, name))
    /\ handlers' = Append(handlers, NewHandler)
    /\ UNCHANGED <<config_vars, updater_vars, discovery_vars, server, pool_vars, codec, sender_vars, disk_vars, events, hash_checks, delivered>>

\* A client connects and delivers one range of the partition, whole or cut
\* short, while other connections may still be handled.
Deliver(r, len) ==
    /\ Len(conns) < MaxConns
    /\ conns' = Append(conns, ClientConn(r, len))
    /\ handlers' = Append(handlers, NewHandler)
    /\ UNCHANGED <<config_vars, updater_vars, discovery_vars, server, pool_vars, codec, sender_vars, disk_vars, events, hash_checks, delivered>>

\* A client delivers one range after the handler of the previous connection
\* has ended; the tracking record left by that handler is noted.
DeliverAfter(r, len) ==
    /\ Len(conns) < MaxDeliveries
    /\ \A i \in 1..Len(handlers) : HandlerFinished(i)
    /\ conns' = Append(conns, ClientConn(r, len))
    /\ handlers' = Append(handlers, NewHandler)
    /\ delivered' = Append(delivered, tracking[SendFileId])
    /\ UNCHANGED <<config_vars, updater_vars, discovery_vars, server, pool_vars, codec, sender_vars, disk_vars, events, hash_checks>>

\* ------------------------------------------------- the header on the wire
\* Bounds of SpecCodec: strings are UTF-8 byte sequences of at most MaxStrLen
\* bytes, the payload written after the header has at most MaxPayload bytes.
MaxStrLen == 2
MaxPayload == 2

\* n.to_be_bytes() of an integer of w bytes, and u32/u64::from_be_bytes.
RECURSIVE LeBytes(_, _)
LeBytes(n, w) == IF w = 0 THEN << >> ELSE <<n % 256>> \o LeBytes(n \div 256, w - 1)

RECURSIVE BeBytes(_, _)
BeBytes(n, w) == IF w = 0 THEN << >> ELSE Append(BeBytes(n \div 256, w - 1), n % 256)

RECURSIVE FromBeBytes(_)
FromBeBytes(bs) ==
    IF bs = << >> THEN 0
    ELSE FromBeBytes(SubSeq(bs, 1, Len(bs) - 1)) * 256 + bs[Len(bs)]

\* String::from_utf8 accepts exactly the well-formed UTF-8 sequences.
RECURSIVE Utf8From(_, _)
Utf8From(bs, k) ==
    IF k > Len(bs) THEN TRUE
    ELSE LET b == bs[k]
             Cont(j) == j <= Len(bs) /\ bs[j] \in 128..191
         IN  IF b < 128 THEN Utf8From(bs, k + 1)
             ELSE IF b \in 194..223 THEN Cont(k + 1) /\ Utf8From(bs, k + 2)
             ELSE IF b \in 224..239
                  THEN /\ Cont(k + 1) /\ Cont(k + 2)
                       /\ (b = 224) => bs[k + 1] >= 160
                       /\ (b = 237) => bs[k + 1] <= 159
                       /\ Utf8From(bs, k + 3)
             ELSE IF b \in 240..244
                  THEN /\ Cont(k + 1) /\ Cont(k + 2) /\ Cont(k + 3)
                       /\ (b = 240) => bs[k + 1] >= 144
                       /\ (b = 244) => bs[k + 1] <= 143
                       /\ Utf8From(bs, k + 4)
             ELSE FALSE

Utf8Valid(bs) == Utf8From(bs, 1)

\* A header as send_file_range holds it: three strings (their bytes) and three u64.
Header(id, name, size, start, end, hash) ==
    [file_id |-> id, file_name |-> name, file_size |-> size, start_pos |-> start,
     end_pos |-> end, file_hash |-> hash]

\* The bytes send_file_range writes before the payload. A length is written
\* as `len() as u32`, which is the length itself below 2^32.
EncodeString(str) == BeBytes(Len(str), 4) \o str

EncodeHeader(h) ==
    EncodeString(h.file_id) \o EncodeString(h.file_name)
        \o BeBytes(h.file_size, 8) \o BeBytes(h.start_pos, 8) \o BeBytes(h.end_pos, 8)
        \o EncodeString(h.file_hash)

\* A read that hands over whatever is left at EOF as if the buffer were full.
ReadExactShort(s, pos, n) ==
    [ok |-> TRUE, bytes |-> SubSeq(s, pos + 1, Min(pos + n, Len(s))),
     pos |-> Min(pos + n, Len(s))]

\* socket.read_exact(&mut buf) of n bytes on a socket whose peer has closed:
\* the next n bytes, or the UnexpectedEof error when fewer are left.
ReadExact(s, pos, n) ==
    IF pos + n <= Len(s)
    THEN [ok |-> TRUE, bytes |-> SubSeq(s, pos + 1, pos + n), pos |-> pos + n]
    ELSE [ok |-> FALSE, bytes |-> << >>, pos |-> pos]

\* A length prefix, the bytes and String::from_utf8(buf)?.
ReadString(s, pos) ==
    LET len == ReadExact(s, pos, 4)
    IN  IF ~len.ok THEN [ok |-> FALSE, error |-> "early eof", value |-> << >>, pos |-> pos]
        ELSE LET buf == ReadExact(s, len.pos, FromBeBytes(len.bytes))
             IN  IF ~buf.ok
                 THEN [ok |-> FALSE, error |-> "early eof", value |-> << >>, pos |-> pos]
                 ELSE IF ~Utf8Valid(buf.bytes)
                 THEN [ok |-> FALSE, error |-> "invalid utf-8", value |-> << >>, pos |-> pos]
                 ELSE [ok |-> TRUE, error |-> "", value |-> buf.bytes, pos |-> buf.pos]

ReadU64(s, pos) ==
    LET buf == ReadExact(s, pos, 8)
    IN  IF ~buf.ok THEN [ok |-> FALSE, error |-> "early eof", value |-> 0, pos |-> pos]
        ELSE [ok |-> TRUE, error |-> "", value |-> FromBeBytes(buf.bytes), pos |-> buf.pos]

NoDecoded == Header(<< >>, << >>, 0, 0, 0, << >>)

DecodeError(why) == [ok |-> FALSE, error |-> why, header |-> NoDecoded, pos |-> 0]

\* The header reads of handle_incoming_file, in their order; the first failing
\* read ends the handler with its error.
DecodeHeader(s) ==
    LET id == ReadString(s, 0) IN
    IF ~id.ok THEN DecodeError(id.error) ELSE
    LET name == ReadString(s, id.pos) IN
    IF ~name.ok THEN DecodeError(name.error) ELSE
    LET size == ReadU64(s, name.pos) IN
    IF ~size.ok THEN DecodeError(size.error) ELSE
    LET start == ReadU64(s, size.pos) IN
    IF ~start.ok THEN DecodeError(start.error) ELSE
    LET end == ReadU64(s, start.pos) IN
    IF ~end.ok THEN DecodeError(end.error) ELSE
    LET hash == ReadString(s, end.pos) IN
    IF ~hash.ok THEN DecodeError(hash.error) ELSE
    [ok |-> TRUE, error |-> "",
     header |-> Header(id.value, name.value, size.value, start.value, end.value,
                       hash.value),
     pos |-> hash.pos]

\* The connection of SpecCodec: what the sender held and wrote, what the
\* handler decoded.
NewCodec == [pc |-> "idle", header |-> NoDecoded, payload |-> << >>,
             stream |-> << >>, result |-> DecodeError("")]

\* The headers and payloads of SpecCodec.
CodecAlphabet == {97, 169, 195}
CodecStrings ==
    {bs \in UNION {[1..n -> CodecAlphabet] : n \in 0..MaxStrLen} : Utf8Valid(bs)}
CodecRanges == {<<0, 0, 0>>, <<1, 0, 1>>, <<256, 1, 256>>, <<65537, 256, 65537>>}
CodecHeaders ==
    {Header(id, name, r[1], r[2], r[3], hash) :
        id \in CodecStrings, name \in CodecStrings, r \in CodecRanges,
        hash \in CodecStrings}
CodecPayloads == UNION {[1..n -> {0, 7}] : n \in 0..MaxPayload}

\* send_file_range writes the header and the payload, and drops the socket.
CodecSend ==
    /\ codec.pc = "idle"
    /\ \E h \in CodecHeaders : \E payload \in CodecPayloads :
          codec' = [codec EXCEPT !.pc = "sent", !.header = h, !.payload = payload,
                                 !.stream = EncodeHeader(h) \o payload]
    /\ UNCHANGED <<config_vars, updater_vars, discovery_vars, server, pool_vars, sender_vars, conns, handlers, disk_vars, events,
                   hash_checks, delivered>>

\* The connection is lost while the header is written: the first k bytes of
\* the header arrive, then EOF.
CodecSendCut ==
    /\ codec.pc = "idle"
    /\ \E h \in CodecHeaders : \E k \in 0..(Len(EncodeHeader(h)) - 1) :
          codec' = [codec EXCEPT !.pc = "sent", !.header = h,
                                 !.stream = SubSeq(EncodeHeader(h), 1, k)]
    /\ UNCHANGED <<config_vars, updater_vars, discovery_vars, server, pool_vars, sender_vars, conns, handlers, disk_vars, events,
                   hash_checks, delivered>>

\* handle_incoming_file up to the Started event: the header reads, each with
\* `?`, then the callback.
CodecReadHeader ==
    /\ codec.pc = "sent"
    /\ LET res == DecodeHeader(codec.stream)
       IN  /\ codec' = [codec EXCEPT !.pc = IF res.ok THEN "started" ELSE "failed",
                                     !.result = res]
           /\ events' = IF res.ok
                        THEN Emit(events, Event("Started", "handler", 1,
                                                res.header.file_size, << >>))
                        ELSE events
    /\ UNCHANGED <<config_vars, updater_vars, discovery_vars, server, pool_vars, sender_vars, conns, handlers, disk_vars,
                   hash_checks, delivered>>

\* ------------------------------------------------------------ discovery
\* discovery.rs: the listener spawned by browse_services handles the events
\* of the mDNS daemon one at a time; get_discovered_nodes is called from any
\* other thread.  Text is a sequence of characters; time is the monotonic
\* clock of Instant::now(), in seconds.
ADVERTISE_TTL == 60
DISCOVERY_PORT == 54321
SERVICE_TYPE == <<"_node-controller", ".", "_tcp", ".", "local", ".">>

MaxClock == 122

\* The ids of the nodes on the network: local_node.id and the peers' ids.
LocalId == "id0"
NodeIds == {"id1", "id2"}
AllIds == NodeIds \cup {LocalId}
NodeNames == {<<"n">>, <<"n", "2">>}
ServiceUuids == {<<"7">>}
Addresses == {"10.0.0.1"}
MetadataKeys == {"id", "name", "interface_type", "capabilities", "version"}

\* str::split(sep): the segments of s between the separators, at least one.
RECURSIVE SplitFrom(_, _, _, _)
SplitFrom(s, sep, k, cur) ==
    IF k > Len(s) THEN <<cur>>
    ELSE IF s[k] = sep THEN <<cur>> \o SplitFrom(s, sep, k + 1, << >>)
    ELSE SplitFrom(s, sep, k + 1, Append(cur, s[k]))

Split(s, sep) == SplitFrom(s, sep, 1, << >>)

\* str::contains
Contains(hay, needle) ==
    \E k \in 0..(Len(hay) - Len(needle)) : SubSeq(hay, k + 1, k + Len(needle)) = needle

\* The instance name of a service: format!("{}_{}", node_name, uuid), and the
\* full name the daemon reports for it.
ServiceName(node_name, uuid) == node_name \o <<"_">> \o uuid
FullName(node_name, uuid) == ServiceName(node_name, uuid) \o <<".">> \o SERVICE_TYPE

\* A TXT property: a key with a value, or a key whose value is absent or is
\* not UTF-8.
Property(v) == [usable |-> TRUE, value |-> v]
NoValue(v) == [usable |-> FALSE, value |-> v]

\* The ServiceInfo registered by advertise_service for a node, without the
\* properties in `missing` and with the value of those in `unusable` unset.
Advertisement(id, node_name, uuid, addresses, missing, unusable) ==
    LET all == [k \in MetadataKeys |->
                   CASE k = "id" -> id
                     [] k = "name" -> node_name
                     [] k = "interface_type" -> <<"Ethernet">>
                     [] k = "capabilities" -> <<"discovery">>
                     [] k = "version" -> <<"0.1.0">>]
    IN  [fullname |-> FullName(node_name, uuid),
         addresses |-> addresses,
         port |-> DISCOVERY_PORT,
         properties |-> [k \in MetadataKeys \ missing |->
                            IF k \in unusable THEN NoValue(all[k])
                            ELSE Property(all[k])]]

\* Option<NodeInfo>
NoNodeInfo == [some |-> FALSE]
SomeNodeInfo(node) == [some |-> TRUE, node |-> node]

\* from_service_info, with the address that get_addresses().iter().next()
\* yields.
FromServiceInfo(info, ip_addr) ==
    LET txt_records == {k \in DOMAIN info.properties : info.properties[k].usable}
        value(k) == info.properties[k].value
    IN  IF ~(MetadataKeys \subseteq txt_records) THEN NoNodeInfo
        ELSE SomeNodeInfo([id |-> value("id"),
                           name |-> value("name"),
                           ip |-> ip_addr,
                           port |-> info.port,
                           interface_type |-> value("interface_type"),
                           capabilities |-> Split(value("capabilities"), ","),
                           version |-> value("version")])

\* The results from_service_info can give: none without an address, else one
\* for the address the iteration of the address set yields first.
ParsedNodes(info) ==
    IF info.addresses = {} THEN {NoNodeInfo}
    ELSE {FromServiceInfo(info, ip) : ip \in info.addresses}

\* HashMap<String, (NodeInfo, Instant)>
NoNodes == [k \in {} |-> [node |-> NoNodeInfo, timestamp |-> 0]]
\* A variant of the insert that keeps the entry an id already has.
NodesInsertIfAbsent(nodes, key, entry) ==
    [k \in DOMAIN nodes \cup {key} |-> IF k \in DOMAIN nodes THEN nodes[k] ELSE entry]
NodesInsert(nodes, key, entry) ==
    [k \in DOMAIN nodes \cup {key} |-> IF k = key THEN entry ELSE nodes[k]]
NodesRemove(nodes, keys) == [k \in DOMAIN nodes \ keys |-> nodes[k]]

Never == -1
NewGetNodes == [pc |-> "idle", now |-> 0, result |-> {}, returned |-> FALSE]

\* The listener task: `while let Ok(event) = receiver.recv_async().await`.
\* Its history tells whether an advertisement was dropped as unparsable and
\* whether an event was handled after that.
NewListener == [pc |-> "running", history |-> "none"]
HistoryAfter(history, dropped) ==
    IF dropped THEN (IF history = "none" THEN "dropped" ELSE history)
    ELSE IF history = "dropped" THEN "resumed" ELSE history

\* Variants of what follows `if let Some(node) = from_service_info(&info)`:
\* the task ends on None, or the loop goes on to the next event.
ListenerEndsOnNone(parsed) == IF parsed.some THEN "running" ELSE "ended"
ListenerAfter(parsed) == "running"

\* Variants of the listener's test `node.id != local_id`.
AnyNode(id, local_id) == TRUE
IsRemoteNode(id, local_id) == id # local_id

\* ServiceEvent::ServiceResolved(info)
ServiceResolved(info) ==
    \E parsed \in ParsedNodes(info) :
        /\ listener.pc = "running"
        /\ listener' = [pc |-> ListenerAfter(parsed),
                        history |-> HistoryAfter(listener.history, ~parsed.some)]
        /\ discovered_nodes' =
              IF parsed.some /\ IsRemoteNode(parsed.node.id, LocalId)
              THEN NodesInsert(discovered_nodes, parsed.node.id,
                               [node |-> parsed.node, timestamp |-> clock])
              ELSE discovered_nodes
        /\ last_resolved' =
              IF parsed.some
              THEN [last_resolved EXCEPT ![parsed.node.id] = clock]
              ELSE last_resolved
        /\ instance_of' =
              IF parsed.some
              THEN [instance_of EXCEPT ![parsed.node.id] = info.fullname]
              ELSE instance_of
        /\ UNCHANGED <<config_vars, updater_vars, selector, advertiser, server, pool_vars, codec, sender_vars, conns,
                       handlers, disk_vars, events, hash_checks, delivered,
                       clock, get_nodes>>

\* The keys of the entries whose node name occurs in the first segment of the
\* removed service's name.
KeysToRemove(nodes, name) ==
    {k \in DOMAIN nodes : Contains(Split(name, ".")[1], nodes[k].node.name)}

\* ServiceEvent::ServiceRemoved(_, name)
ServiceRemoved(name) ==
    /\ listener.pc = "running"
    /\ listener' = [listener EXCEPT !.history = HistoryAfter(@, FALSE)]
    /\ discovered_nodes' = NodesRemove(discovered_nodes, KeysToRemove(discovered_nodes, name))
    /\ UNCHANGED <<config_vars, updater_vars, selector, advertiser, server, pool_vars, codec, sender_vars, conns,
                   handlers, disk_vars, events, hash_checks, delivered,
                   clock, last_resolved, instance_of, get_nodes>>

\* Instant::duration_since: zero when `earlier` is later than `now`.
DurationSince(now, earlier) == IF now >= earlier THEN now - earlier ELSE 0

\* Variants of the test of retain: expired at 2*TTL + 1 s only.
ExpiredLate(now, timestamp) == DurationSince(now, timestamp) > ADVERTISE_TTL * 2 + 1
Expired(now, timestamp) == DurationSince(now, timestamp) > ADVERTISE_TTL * 2

\* get_discovered_nodes: `now` is read before the mutex is taken.
GetNodesNow ==
    /\ get_nodes.pc = "idle"
    /\ get_nodes' = [pc |-> "lock", now |-> clock, result |-> {}, returned |-> FALSE]
    /\ UNCHANGED <<config_vars, updater_vars, selector, advertiser, server, pool_vars, codec, sender_vars, conns,
                   handlers, disk_vars, events, hash_checks, delivered,
                   clock, discovered_nodes, last_resolved, instance_of, listener>>

\* get_discovered_nodes: under the mutex, retain and copy the nodes.
GetNodesRetain ==
    /\ get_nodes.pc = "lock"
    /\ LET kept == {k \in DOMAIN discovered_nodes :
                       ~Expired(get_nodes.now, discovered_nodes[k].timestamp)}
       IN  /\ discovered_nodes' = [k \in kept |-> discovered_nodes[k]]
           /\ get_nodes' = [get_nodes EXCEPT
                 !.pc = "idle",
                 !.result = {discovered_nodes[k].node : k \in kept},
                 !.returned = TRUE]
    /\ UNCHANGED <<config_vars, updater_vars, selector, advertiser, server, pool_vars, codec, sender_vars, conns,
                   handlers, disk_vars, events, hash_checks, delivered,
                   clock, last_resolved, instance_of, listener>>

\* Time passes.
Elapse(d) ==
    /\ clock + d <= MaxClock
    /\ clock' = clock + d
    /\ UNCHANGED <<config_vars, updater_vars, selector, advertiser, server, pool_vars, codec, sender_vars, conns,
                   handlers, disk_vars, events, hash_checks, delivered,
                   discovered_nodes, last_resolved, instance_of, get_nodes, listener>>

\* ---------------------------------------------------- advertise_service
REFRESH_INTERVAL == 55

\* The ServiceInfo advertise_service builds from local_node and service_name.
LocalAd == Advertisement(LocalId, <<"n">>, <<"7">>, Addresses, {}, {})

\* The refresh task, the record the daemon last accepted and when.
NewAdvertiser == [pc |-> "new", wake_at |-> 0, published |-> LocalAd,
                  published_at |-> Never, registered |-> FALSE, shutdown |-> FALSE]

\* advertise_service: register the record (`?`), then spawn the refresh task,
\* which starts with sleep(REFRESH_INTERVAL).
AdvertiseService(ok) ==
    /\ advertiser.pc = "new"
    /\ advertiser' =
          IF ok
          THEN [advertiser EXCEPT !.pc = "sleep",
                                  !.wake_at = clock + REFRESH_INTERVAL,
                                  !.published = LocalAd, !.published_at = clock,
                                  !.registered = TRUE]
          ELSE [advertiser EXCEPT !.pc = "start_failed"]
    /\ UNCHANGED <<config_vars, updater_vars, selector, server, pool_vars, codec, sender_vars, conns,
                   handlers, disk_vars, events, hash_checks, delivered,
                   clock, discovered_nodes, last_resolved, instance_of,
                   get_nodes, listener>>

\* The refresh task wakes: it builds the record again and registers it; `ok`
\* is the result of mdns.register.  An error is logged, and the task sleeps
\* again either way.
RefreshAdvertisement(ok) ==
    /\ advertiser.pc = "sleep"
    /\ clock = advertiser.wake_at
    /\ advertiser' =
          IF ok
          THEN [advertiser EXCEPT !.wake_at = clock + REFRESH_INTERVAL,
                                  !.published = LocalAd, !.published_at = clock,
                                  !.registered = TRUE]
          ELSE [advertiser EXCEPT !.wake_at = clock + REFRESH_INTERVAL]
    /\ UNCHANGED <<config_vars, updater_vars, selector, server, pool_vars, codec, sender_vars, conns,
                   handlers, disk_vars, events, hash_checks, delivered,
                   clock, discovered_nodes, last_resolved, instance_of,
                   get_nodes, listener>>

\* shutdown(): mdns.unregister(&service_name); `ok` is its result, an error is
\* logged.  The refresh task is not touched.
Shutdown(ok) ==
    /\ advertiser.pc = "sleep"
    /\ ~advertiser.shutdown
    /\ advertiser' = [advertiser EXCEPT !.shutdown = TRUE,
                                        !.registered = IF ok THEN FALSE ELSE @]
    /\ UNCHANGED <<config_vars, updater_vars, selector, server, pool_vars, codec,
                   sender_vars, conns, handlers, disk_vars, events, hash_checks,
                   delivered, clock, discovered_nodes, last_resolved, instance_of,
                   get_nodes, listener>>

\* Time passes up to the moment the refresh task's sleep ends.
AdvertiserElapse(d) ==
    /\ advertiser.pc = "sleep" => clock + d <= advertiser.wake_at
    /\ Elapse(d)

\* ------------------------------------------------------------ interface.rs
MaxInterfaces == 4

\* str::starts_with
StartsWith(s, prefix) ==
    Len(s) >= Len(prefix) /\ SubSeq(s, 1, Len(prefix)) = prefix

\* NetworkInterface::new: the priority of an interface type.
Priority(interface_type) ==
    CASE interface_type = "Thunderbolt" -> 100
      [] interface_type = "Ethernet" -> 80
      [] interface_type = "Wifi" -> 60
      [] interface_type = "Loopback" -> 10
      [] interface_type = "Other" -> 1

NetworkInterface(name, ip, interface_type) ==
    [name |-> name, ip |-> ip, interface_type |-> interface_type,
     priority |-> Priority(interface_type)]

is_thunderbolt(name) ==
    \/ Contains(name, <<"t", "h", "u", "n", "d", "e", "r", "b", "o", "l", "t">>)
    \/ Contains(name, <<"t", "b">>)
    \/ Contains(name, <<"b", "r", "i", "d", "g", "e">>)
    \/ /\ StartsWith(name, <<"e", "n">>)
       /\ (Contains(name, <<"5">>) \/ Contains(name, <<"6">>))

is_ethernet(name) ==
    \/ Contains(name, <<"e", "t", "h">>)
    \/ Contains(name, <<"e", "n">>)
    \/ StartsWith(name, <<"e", "n">>)

is_wifi(name) ==
    \/ Contains(name, <<"w", "l", "a", "n">>)
    \/ Contains(name, <<"w", "i", "f", "i">>)
    \/ Contains(name, <<"w", "i", "-", "f", "i">>)
    \/ StartsWith(name, <<"w", "l">>)

\* An address is its kind: "loopback", "unspecified", "multicast" or "host".
is_loopback(name, ip) == Contains(name, <<"l", "o">>) \/ ip = "loopback"

detect_interface_type(name, ip) ==
    IF is_loopback(name, ip) THEN "Loopback"
    ELSE IF is_thunderbolt(name) THEN "Thunderbolt"
    ELSE IF is_ethernet(name) THEN "Ethernet"
    ELSE IF is_wifi(name) THEN "Wifi"
    ELSE "Other"

\* The loop of discover_interfaces over the entries of get_if_addrs.
RECURSIVE CollectInterfaces(_, _)
CollectInterfaces(if_addrs, k) ==
    IF k > Len(if_addrs) THEN << >>
    ELSE LET interface == if_addrs[k]
             rest == CollectInterfaces(if_addrs, k + 1)
         IN  IF interface.ip \in {"unspecified", "multicast"} THEN rest
             ELSE <<NetworkInterface(interface.name, interface.ip,
                        detect_interface_type(interface.name, interface.ip))>> \o rest

\* slice::sort_by(|a, b| b.priority.cmp(&a.priority)): stable, highest first.
RECURSIVE InsertByPriority(_, _)
InsertByPriority(sorted, x) ==
    IF sorted = << >> THEN <<x>>
    ELSE IF Head(sorted).priority >= x.priority
         THEN <<Head(sorted)>> \o InsertByPriority(Tail(sorted), x)
         ELSE <<x>> \o sorted

RECURSIVE SortByPriority(_)
SortByPriority(interfaces) ==
    IF interfaces = << >> THEN << >>
    ELSE InsertByPriority(SortByPriority(SubSeq(interfaces, 1, Len(interfaces) - 1)),
                          interfaces[Len(interfaces)])

\* discover_interfaces: Err when get_if_addrs fails.
discover_interfaces(os) ==
    IF ~os.ok THEN [ok |-> FALSE, error |-> "Failed to get network interfaces"]
    ELSE [ok |-> TRUE, interfaces |-> SortByPriority(CollectInterfaces(os.if_addrs, 1))]

\* Variants of the test of the loop of get_best_interface.
AnyInterface(interface) == TRUE
NotLoopback(interface) == interface.interface_type # "Loopback"

RECURSIVE FirstSuitable(_, _)
FirstSuitable(interfaces, k) ==
    IF k > Len(interfaces)
    THEN [ok |-> FALSE, error |-> "No suitable network interface found"]
    ELSE IF NotLoopback(interfaces[k]) THEN [ok |-> TRUE, interface |-> interfaces[k]]
    ELSE FirstSuitable(interfaces, k + 1)

get_best_interface(os) ==
    LET discovered == discover_interfaces(os)
    IN  IF ~discovered.ok THEN discovered
        ELSE FirstSuitable(discovered.interfaces, 1)

\* What get_if_addrs can answer: an error, or up to MaxInterfaces of these.
IfAddrs ==
    {[name |-> <<"l", "o">>, ip |-> "loopback"],
     [name |-> <<"e", "n", "0">>, ip |-> "host"],
     [name |-> <<"e", "n", "5">>, ip |-> "host"],
     [name |-> <<"w", "l", "0">>, ip |-> "host"],
     [name |-> <<"u", "t", "u", "n", "0">>, ip |-> "host"],
     [name |-> <<"e", "n", "0">>, ip |-> "unspecified"],
     [name |-> <<"e", "t", "h", "1">>, ip |-> "loopback"],
     [name |-> <<"w", "l", "0">>, ip |-> "multicast"]}

OsAnswers ==
    {[ok |-> FALSE, if_addrs |-> << >>]}
    \cup {[ok |-> TRUE, if_addrs |-> s] :
            s \in UNION {[1..n -> IfAddrs] : n \in 0..MaxInterfaces}}

NewSelector == [pc |-> "idle", os |-> [ok |-> FALSE, if_addrs |-> << >>],
                result |-> [ok |-> FALSE, error |-> "not called"]]

\* A call of get_best_interface, `os` being the answer of get_if_addrs.
GetBestInterface(os) ==
    /\ selector.pc = "idle"
    /\ selector' = [pc |-> "done", os |-> os, result |-> get_best_interface(os)]
    /\ UNCHANGED <<config_vars, updater_vars, server, pool_vars, codec, sender_vars, conns,
                   handlers, disk_vars, events, hash_checks, delivered,
                   clock, discovered_nodes, last_resolved, instance_of,
                   get_nodes, listener, advertiser>>

\* ------------------------------------------------------- updater/version.rs
MaxVersionPart == 1

\* Option<String>: << >> is None and <<s>> is Some(s); a string is its bytes.
\* Ord for str: lexicographic by bytes.
RECURSIVE CmpBytes(_, _)
CmpBytes(a, b) ==
    IF a = << >> /\ b = << >> THEN "Equal"
    ELSE IF a = << >> THEN "Less"
    ELSE IF b = << >> THEN "Greater"
    ELSE IF Head(a) < Head(b) THEN "Less"
    ELSE IF Head(a) > Head(b) THEN "Greater"
    ELSE CmpBytes(Tail(a), Tail(b))

CmpU32(a, b) == IF a < b THEN "Less" ELSE IF a > b THEN "Greater" ELSE "Equal"

Version(major, minor, patch, pre_release, build) ==
    [major |-> major, minor |-> minor, patch |-> patch,
     pre_release |-> pre_release, build |-> build]

\* #[derive(PartialEq, Eq)]: every field is compared.
VersionEq(a, b) ==
    /\ a.major = b.major
    /\ a.minor = b.minor
    /\ a.patch = b.patch
    /\ a.pre_release = b.pre_release
    /\ a.build = b.build

\* impl Ord for Version
VersionCmp(a, b) ==
    IF CmpU32(a.major, b.major) # "Equal" THEN CmpU32(a.major, b.major)
    ELSE IF CmpU32(a.minor, b.minor) # "Equal" THEN CmpU32(a.minor, b.minor)
    ELSE IF CmpU32(a.patch, b.patch) # "Equal" THEN CmpU32(a.patch, b.patch)
    ELSE IF a.pre_release = << >> /\ b.pre_release # << >> THEN "Greater"
    ELSE IF a.pre_release # << >> /\ b.pre_release = << >> THEN "Less"
    ELSE IF a.pre_release # << >> /\ b.pre_release # << >>
         THEN CmpBytes(a.pre_release[1], b.pre_release[1])
    ELSE "Equal"

\* Pre-release identifiers "a", "ab", "b" and build metadata "1", "2".
PreReleases == {<< >>, <<(<<97>>)>>, <<(<<97, 98>>)>>, <<(<<98>>)>>}
Builds == {<< >>, <<(<<49>>)>>, <<(<<50>>)>>}
Versions ==
    {Version(ma, mi, pa, pre, b) :
        ma \in 0..MaxVersionPart, mi \in 0..MaxVersionPart, pa \in 0..MaxVersionPart,
        pre \in PreReleases, b \in Builds}

NewComparison == [pc |-> "idle", a |-> Version(0, 0, 0, << >>, << >>),
                  b |-> Version(0, 0, 0, << >>, << >>), eq |-> TRUE, cmp |-> "Equal"]

\* a == b and a.cmp(&b) for two versions.
CompareVersions(a, b) ==
    /\ comparison.pc = "idle"
    /\ comparison' = [pc |-> "done", a |-> a, b |-> b,
                      eq |-> VersionEq(a, b), cmp |-> VersionCmp(a, b)]
    /\ UNCHANGED <<config_vars, discovery_vars, server, pool_vars, codec, sender_vars,
                   conns, handlers, disk_vars, events, hash_checks, delivered, updater>>

\* ------------------------------------------------------------ UpdateManager
\* The versions of the releases an update check or a command can name.
Releases == {"1.1.0", "1.2.0"}

\* UpdateStatus: the variant and the version it carries ("" where it has none).
Status(kind, version) == [kind |-> kind, version |-> version]

\* The steps of apply_update that return their error with `?`, in order, and
\* the status written before each.
StageStatus(stage) ==
    CASE stage = "download" -> "Downloading"
      [] stage = "verify" -> "Verifying"
      [] stage = "backup" -> "BackingUp"
      [] stage = "install" -> "Installing"
NextStage(stage) ==
    CASE stage = "download" -> "verify"
      [] stage = "verify" -> "backup"
      [] stage = "backup" -> "install"
      [] stage = "install" -> "health"

\* UpdateManager::new: status Idle, the loop not started. `outcome` notes how
\* the last apply_update of the loop ended, until the next command or tick.
NewUpdater == [pc |-> "new", auto_update |-> FALSE, status |-> Status("Idle", ""),
               release |-> "", trigger |-> "none", outcome |-> "none"]

UpdaterUnchanged ==
    UNCHANGED <<config_vars, discovery_vars, server, pool_vars, codec, sender_vars,
                conns, handlers, disk_vars, events, hash_checks, delivered, comparison>>

\* start(): the update loop is spawned with the configuration.
UpdaterStart(auto) ==
    /\ updater.pc = "new"
    /\ updater' = [updater EXCEPT !.pc = "idle", !.auto_update = auto]
    /\ UpdaterUnchanged

\* The interval tick or a CheckForUpdates command: check_updates sets Checking.
RecvCheckForUpdates ==
    /\ updater.pc = "idle"
    /\ updater' = [updater EXCEPT !.pc = "checking", !.status = Status("Checking", ""),
                                  !.outcome = "none"]
    /\ UpdaterUnchanged

\* github::check_for_updates returns: Err (the loop sets Error), Ok(None), or
\* Ok(Some(release)), which is applied at once when auto_update is set.
CheckUpdatesResult(res) ==
    /\ updater.pc = "checking"
    /\ updater' =
         IF res = "err"
         THEN [updater EXCEPT !.pc = "idle", !.status = Status("Error", "")]
         ELSE IF res = "none"
         THEN [updater EXCEPT !.pc = "idle", !.status = Status("NoUpdateAvailable", "")]
         ELSE IF updater.auto_update
         THEN [updater EXCEPT !.pc = "download", !.status = Status("UpdateAvailable", res),
                              !.release = res, !.trigger = "auto"]
         ELSE [updater EXCEPT !.pc = "idle", !.status = Status("UpdateAvailable", res)]
    /\ UpdaterUnchanged

\* The loop receives ApplyUpdate(release) and calls apply_update.
RecvApplyUpdate(release) ==
    /\ updater.pc = "idle"
    /\ updater' = [updater EXCEPT !.pc = "download", !.release = release,
                                  !.trigger = "command", !.outcome = "none"]
    /\ UpdaterUnchanged

RecvCancelUpdate ==
    /\ updater.pc = "idle"
    /\ updater' = [updater EXCEPT !.status = Status("Idle", ""), !.outcome = "none"]
    /\ UpdaterUnchanged

RecvShutdown ==
    /\ updater.pc = "idle"
    /\ updater' = [updater EXCEPT !.pc = "stopped", !.outcome = "none"]
    /\ UpdaterUnchanged

\* Steps 1 to 4 of apply_update: the status is written, then the step runs and
\* its error is returned with `?`.
ApplyStage(ok) ==
    /\ updater.pc \in {"download", "verify", "backup", "install"}
    /\ updater' = [updater EXCEPT
                     !.status = Status(StageStatus(updater.pc), updater.release),
                     !.pc = IF ok THEN NextStage(updater.pc) ELSE "failed"]
    /\ UpdaterUnchanged

\* Step 5: health::verify_installation; its failure starts the rollback.
VerifyInstallation(ok) ==
    /\ updater.pc = "health"
    /\ updater' = [updater EXCEPT
                     !.status = Status("VerifyingInstallation", updater.release),
                     !.pc = IF ok THEN "cleanup" ELSE "rollback"]
    /\ UpdaterUnchanged

\* The rollback: RollingBack is written, restore_from_backup runs, and
\* apply_update returns its error or the error of the health check.
RollBack(ok) ==
    /\ updater.pc = "rollback"
    /\ updater' = [updater EXCEPT
                     !.status = Status("RollingBack", updater.release),
                     !.pc = "failed"]
    /\ UpdaterUnchanged

\* Steps 6 and 7: cleanup_old_backups, then UpdateSuccess and Ok(()).
CleanupBackups(ok) ==
    /\ updater.pc = "cleanup"
    /\ updater' = IF ok
                  THEN [updater EXCEPT !.pc = "idle", !.outcome = "ok",
                                       !.status = Status("UpdateSuccess", updater.release)]
                  ELSE [updater EXCEPT !.pc = "failed"]
    /\ UpdaterUnchanged

\* The caller of an apply_update that returned Err: the ApplyUpdate arm of the
\* loop writes UpdateFailed, check_updates only logs the error.
ApplyUpdateFailed ==
    /\ updater.pc = "failed"
    /\ updater' = [updater EXCEPT
                     !.pc = "idle", !.outcome = "failed",
                     !.status = IF updater.trigger = "command"
                                THEN Status("UpdateFailed", updater.release) ELSE @]
    /\ UpdaterUnchanged

\* ------------------------------------------------------ the specifications
NewSendFile == [pc |-> "call", next |-> 0, success |-> TRUE, errors |-> << >>,
                result |-> NoResult]
NewSampler == [pc |-> "none", bytes_sent |-> 0, ticks |-> 0, aborted |-> FALSE]

\* The state after FileTransferManager::new and start_server: an empty
\* receive_dir, no connection, send_file not yet called.
InitServer ==
    /\ sf = NewSendFile
    /\ ranges = << >>
    /\ total_bytes_sent = 0
    /\ sampler = NewSampler
    /\ tasks = << >>
    /\ conns = << >>
    /\ handlers = << >>
    /\ tracking = [f \in FileIds |-> AbsentRecord]
    /\ hash_record = [f \in FileIds |-> AbsentHash]
    /\ dest = [f \in FileNames |-> AbsentFile]
    /\ events = << >>
    /\ hash_checks = << >>
    /\ delivered = << >>
    /\ codec = NewCodec
    /\ server = NewServer
    /\ buffer_pool = NewPool(chunk_size)
    /\ pool_lock = 0
    /\ clock = 0
    /\ discovered_nodes = NoNodes
    /\ last_resolved = [id \in AllIds |-> Never]
    /\ instance_of = [id \in AllIds |-> << >>]
    /\ get_nodes = NewGetNodes
    /\ listener = NewListener
    /\ advertiser = NewAdvertiser
    /\ selector = NewSelector
    /\ comparison = NewComparison
    /\ updater = NewUpdater

HandlerNext ==
    \/ \E i \in 1..Len(handlers) : Accept(i)
    \/ \E i \in 1..Len(handlers) : ReadHeader(i)
    \/ \E i \in 1..Len(handlers) : StoreHash(i)
    \/ \E i \in 1..Len(handlers) : RegExists(i)
    \/ \E i \in 1..Len(handlers) : RegRead(i)
    \/ \E i \in 1..Len(handlers) : RegWrite(i)
    \/ \E i \in 1..Len(handlers) : PrepExists(i)
    \/ \E i \in 1..Len(handlers) : CreateFile(i)
    \/ \E i \in 1..Len(handlers) : OpenFile(i)
    \/ \E i \in 1..Len(handlers) : SetLen(i)
    \/ \E i \in 1..Len(handlers) : TakeTryLock(i)
    \/ \E i \in 1..Len(handlers) : PopBuffer(i)
    \/ \E i \in 1..Len(handlers) : CopyChunk(i)
    \/ \E i \in 1..Len(handlers) : CopyEof(i)
    \/ \E i \in 1..Len(handlers) : CopyDone(i)
    \/ \E i \in 1..Len(handlers) : GiveTryLock(i)
    \/ \E i \in 1..Len(handlers) : PushBuffer(i)
    \/ \E i \in 1..Len(handlers) : FinExists(i)
    \/ \E i \in 1..Len(handlers) : FinRead(i)
    \/ \E i \in 1..Len(handlers) : FinWrite(i)
    \/ \E i \in 1..Len(handlers) : VerifyHash(i)
    \/ \E i \in 1..Len(handlers) : VerifyRead(i)
    \/ \E i \in 1..Len(handlers) : RemoveTracking(i)
    \/ \E i \in 1..Len(handlers) : RemoveHash(i)

\* The handler steps of a connection whose sender writes the whole range.
LoopbackHandlerNext ==
    \/ \E i \in 1..Len(handlers) : Accept(i)
    \/ \E i \in 1..Len(handlers) : ReadHeader(i)
    \/ \E i \in 1..Len(handlers) : StoreHash(i)
    \/ \E i \in 1..Len(handlers) : RegExists(i)
    \/ \E i \in 1..Len(handlers) : RegRead(i)
    \/ \E i \in 1..Len(handlers) : RegWrite(i)
    \/ \E i \in 1..Len(handlers) : PrepExists(i)
    \/ \E i \in 1..Len(handlers) : CreateFile(i)
    \/ \E i \in 1..Len(handlers) : OpenFile(i)
    \/ \E i \in 1..Len(handlers) : SetLen(i)
    \/ \E i \in 1..Len(handlers) : TakeTryLock(i)
    \/ \E i \in 1..Len(handlers) : PopBuffer(i)
    \/ \E i \in 1..Len(handlers) : CopyChunk(i)
    \/ \E i \in 1..Len(handlers) : CopyDone(i)
    \/ \E i \in 1..Len(handlers) : GiveTryLock(i)
    \/ \E i \in 1..Len(handlers) : PushBuffer(i)
    \/ \E i \in 1..Len(handlers) : FinExists(i)
    \/ \E i \in 1..Len(handlers) : FinRead(i)
    \/ \E i \in 1..Len(handlers) : FinWrite(i)
    \/ \E i \in 1..Len(handlers) : VerifyHash(i)
    \/ \E i \in 1..Len(handlers) : VerifyRead(i)
    \/ \E i \in 1..Len(handlers) : RemoveTracking(i)
    \/ \E i \in 1..Len(handlers) : RemoveHash(i)

\* Spec: a manager runs the server and sends one file to it; every
\* connection is made and every write on a socket succeeds.
Init ==
    /\ file_size \in 0..MaxFileSize
    /\ chunk_size \in 1..MaxChunkSize
    /\ progress_callback \in BOOLEAN
    /\ concurrent_streams \in
          1..(IF progress_callback THEN MaxObservedStreams ELSE MaxStreams)
    /\ InitServer

SendOkNext ==
    \/ SendFileStart
    \/ SamplerTick
    \/ SamplerEmit
    \/ \E i \in 1..Len(tasks) : StreamConnect(i)
    \/ \E i \in 1..Len(tasks) : StreamSendHeader(i)
    \/ \E i \in 1..Len(tasks) : StreamSend(i)
    \/ \E i \in 1..Len(tasks) : StreamFinish(i)
    \/ AwaitHandle
    \/ AbortSampler
    \/ ReportFinal
    \/ SendFileReturn

Next == SendOkNext \/ LoopbackHandlerNext

Spec == Init /\ [][Next]_vars

\* SpecSend: send_file to a peer that reads what it is sent; a connection
\* may fail to open, a write may fail and a stream task may end by a panic.
InitSend ==
    /\ file_size \in 0..SendMaxFileSize
    /\ chunk_size \in 1..SendMaxChunkSize
    /\ concurrent_streams \in 1..SendMaxStreams
    /\ progress_callback \in BOOLEAN
    /\ InitServer

SendNext ==
    \/ SendFileStart
    \/ SendFileNoSource
    \/ SamplerTick
    \/ SamplerEmit
    \/ \E i \in 1..Len(tasks) : StreamConnect(i)
    \/ \E i \in 1..Len(tasks) : StreamConnectFail(i)
    \/ \E i \in 1..Len(tasks) : StreamSendHeader(i)
    \/ \E i \in 1..Len(tasks) : StreamSend(i)
    \/ \E i \in 1..Len(tasks) : StreamWriteFail(i)
    \/ \E i \in 1..Len(tasks) : StreamFinish(i)
    \/ \E i \in 1..Len(tasks) : StreamPanic(i)
    \/ AwaitHandle
    \/ AbortSampler
    \/ ReportFinal
    \/ SendFileReturn

SpecSend == InitSend /\ [][SendNext]_vars

\* SpecSendAny: send_file under every concurrent_streams value of the
\* configuration, 0 included (the field is an unvalidated usize).
AnyMaxFileSize == 2
AnyMaxChunkSize == 2
AnyMaxStreams == 2

InitSendAny ==
    /\ file_size \in 0..AnyMaxFileSize
    /\ chunk_size \in 1..AnyMaxChunkSize
    /\ concurrent_streams \in 0..AnyMaxStreams
    /\ progress_callback \in BOOLEAN
    /\ InitServer

SpecSendAny == InitSendAny /\ [][SendNext]_vars

\* SpecReceive: the server receives the ranges of one transfer from a client,
\* in any order, whole or cut short, over concurrent connections.
InitReceive ==
    /\ file_size \in 1..RecvMaxFileSize
    /\ chunk_size \in 1..RecvMaxChunkSize
    /\ concurrent_streams \in 1..RecvMaxStreams
    /\ progress_callback \in BOOLEAN
    /\ InitServer

PartitionRanges ==
    LET rs == SendRanges(file_size, chunk_size, concurrent_streams)
    IN  {rs[i] : i \in 1..Len(rs)}

ReceiveNext ==
    \/ \E r \in PartitionRanges : \E len \in 0..(r[2] - r[1]) : Deliver(r, len)
    \/ HandlerNext

SpecReceive == InitReceive /\ [][ReceiveNext]_vars

\* SpecIsolation: the server receives the ranges of two transfers with
\* distinct file_ids, whose file names are equal or different.
IsoMaxFileSize == 2
IsoMaxStreams == 2

InitIsolation ==
    /\ file_size \in 1..IsoMaxFileSize
    /\ chunk_size = 1
    /\ concurrent_streams \in 1..IsoMaxStreams
    /\ progress_callback = FALSE
    /\ InitServer

IsolationNext ==
    \/ \E r \in PartitionRanges : \E len \in 0..(r[2] - r[1]) : Deliver(r, len)
    \/ \E r \in PartitionRanges : \E name \in FileNames : DeliverOther(r, r[2] - r[1], name)
    \/ HandlerNext

SpecIsolation == InitIsolation /\ [][IsolationNext]_vars

\* SpecDeliver: as SpecReceive, one connection after the other.
DeliverNext ==
    \/ \E r \in PartitionRanges : \E len \in 0..(r[2] - r[1]) : DeliverAfter(r, len)
    \/ HandlerNext

SpecDeliver == InitReceive /\ [][DeliverNext]_vars

\* SpecPartition: the partition of send_file for every input in the bounds.
InitPartition ==
    /\ file_size \in 0..PartMaxFileSize
    /\ chunk_size \in 1..PartMaxChunkSize
    /\ concurrent_streams \in 1..PartMaxStreams
    /\ progress_callback \in BOOLEAN
    /\ InitServer

PartitionNext == SendFileStart

SpecPartition == InitPartition /\ [][PartitionNext]_vars

\* SpecCodec: one header, written whole or cut short, and read by the handler.
InitCodec ==
    /\ file_size = 0
    /\ chunk_size = 1
    /\ concurrent_streams = 1
    /\ progress_callback \in BOOLEAN
    /\ InitServer

CodecNext ==
    \/ CodecSend
    \/ CodecSendCut
    \/ CodecReadHeader

SpecCodec == InitCodec /\ [][CodecNext]_vars

\* SpecStop: the server receives connections while stop_server is called at
\* any moment.
StopNext ==
    \/ \E r \in PartitionRanges : \E len \in 0..(r[2] - r[1]) : Deliver(r, len)
    \/ HandlerNext
    \/ StopServer
    \/ AcceptLoopShutdown

\* The transfers of SpecStop are of a file of one byte in one range.
InitStop ==
    /\ file_size = 1
    /\ chunk_size = 1
    /\ concurrent_streams = 1
    /\ progress_callback \in BOOLEAN
    /\ InitServer

SpecStop == InitStop /\ [][StopNext]_vars

\* SpecStart: as SpecStop, with calls of start_server that fail to bind.
StartNext ==
    \/ StopNext
    \/ StartServerFails

SpecStart == InitStop /\ [][StartNext]_vars

\* SpecStopFair: the select of the accept loop polls its branches in random
\* order, so a shutdown signal that stays in the channel is taken.
SpecStopFair == SpecStop /\ WF_vars(AcceptLoopShutdown)

\* SpecDiscovery: the listener handles resolved and removed advertisements of
\* the local node and of two peers while time passes and the registry is read.
ElapseSteps == {ADVERTISE_TTL, ADVERTISE_TTL + 1}
Advertisements ==
    {Advertisement(id, n, u, Addresses, {}, {}) :
        id \in AllIds, n \in NodeNames, u \in ServiceUuids}
RemovedNames == {FullName(n, u) : n \in NodeNames, u \in ServiceUuids}

InitDiscovery ==
    /\ file_size = 0
    /\ chunk_size = 1
    /\ concurrent_streams = 1
    /\ progress_callback = FALSE
    /\ InitServer

DiscoveryNext ==
    \/ \E info \in Advertisements : ServiceResolved(info)
    \/ \E name \in RemovedNames : ServiceRemoved(name)
    \/ GetNodesNow
    \/ GetNodesRetain
    \/ \E d \in ElapseSteps : Elapse(d)

SpecDiscovery == InitDiscovery /\ [][DiscoveryNext]_vars


\* SpecRefresh: the advertisement of one peer is resolved every 50 s while
\* the listener handles advertisements and removals of the other peer and the
\* registry is read.
RefreshPeriod == ADVERTISE_TTL - 10
RefreshSteps == {10, 40}
RefreshedId == "id1"
RefreshedAd == Advertisement(RefreshedId, <<"n">>, <<"7">>, Addresses, {}, {})
OtherAds ==
    {Advertisement(id, <<"n", "2">>, <<"7">>, Addresses, {}, {}) : id \in AllIds \ {RefreshedId}}
OtherRemovedNames == {FullName(<<"n", "2">>, <<"7">>)}

\* The refreshed peer's advertisement arrives first and then every 50 s.
RefreshDue ==
    \/ last_resolved[RefreshedId] = Never
    \/ clock = last_resolved[RefreshedId] + RefreshPeriod

Refresh ==
    /\ RefreshDue
    /\ ServiceResolved(RefreshedAd)

RefreshElapse(d) ==
    /\ last_resolved[RefreshedId] # Never
    /\ clock + d <= last_resolved[RefreshedId] + RefreshPeriod
    /\ Elapse(d)

RefreshNext ==
    \/ Refresh
    \/ \E info \in OtherAds : ServiceResolved(info)
    \/ \E name \in OtherRemovedNames : ServiceRemoved(name)
    \/ GetNodesNow
    \/ GetNodesRetain
    \/ \E d \in RefreshSteps : RefreshElapse(d)

SpecRefresh == InitDiscovery /\ [][RefreshNext]_vars

\* SpecAddress: one peer re-advertises from other addresses and ports while
\* the local node and another peer advertise from theirs.
MovedAddresses == {"10.0.0.1", "10.0.0.2"}
MovedAds ==
    {[Advertisement("id1", <<"n">>, <<"7">>, {ip}, {}, {}) EXCEPT !.port = p] :
        ip \in MovedAddresses, p \in {DISCOVERY_PORT, DISCOVERY_PORT + 1}}
    \cup {Advertisement(id, <<"n">>, <<"7">>, Addresses, {}, {}) : id \in AllIds \ {"id1"}}

AddressNext ==
    \/ \E info \in MovedAds : ServiceResolved(info)
    \/ GetNodesNow
    \/ GetNodesRetain
    \/ \E d \in ElapseSteps : Elapse(d)

SpecAddress == InitDiscovery /\ [][AddressNext]_vars

\* SpecMalformed: among the advertisements of the peers are some that lack a
\* metadata field, carry one without a usable value, or have no address.
WellFormedAds == {Advertisement(id, <<"n">>, <<"7">>, Addresses, {}, {}) : id \in AllIds}
MalformedAds ==
    {Advertisement("id1", <<"n">>, <<"7">>, Addresses, {k}, {}) : k \in MetadataKeys}
    \cup {Advertisement("id1", <<"n">>, <<"7">>, Addresses, {}, {k}) : k \in MetadataKeys}
    \cup {Advertisement("id1", <<"n">>, <<"7">>, {}, {}, {})}

MalformedNext ==
    \/ \E info \in WellFormedAds : ServiceResolved(info)
    \/ \E info \in MalformedAds : ServiceResolved(info)
    \/ \E name \in RemovedNames : ServiceRemoved(name)
    \/ GetNodesNow
    \/ GetNodesRetain
    \/ \E d \in ElapseSteps : Elapse(d)

SpecMalformed == InitDiscovery /\ [][MalformedNext]_vars

\* SpecAdvertise: start() advertises the local node and the refresh task runs.
AdvertiseSteps == {5, 50}

AdvertiseNext ==
    \/ \E ok \in BOOLEAN : AdvertiseService(ok)
    \/ \E ok \in BOOLEAN : RefreshAdvertisement(ok)
    \/ \E d \in AdvertiseSteps : AdvertiserElapse(d)
    \/ \E ok \in BOOLEAN : Shutdown(ok)

SpecAdvertise == InitDiscovery /\ [][AdvertiseNext]_vars

\* SpecInterface: get_best_interface over what the OS can answer.
InterfaceNext == \E os \in OsAnswers : GetBestInterface(os)

SpecInterface == InitDiscovery /\ [][InterfaceNext]_vars

\* SpecVersion: two versions are compared.
VersionNext == \E a \in Versions : \E b \in Versions : CompareVersions(a, b)

SpecVersion == InitDiscovery /\ [][VersionNext]_vars

\* SpecUpdater: the update loop handles ticks and commands, and every step of
\* apply_update succeeds or fails.
UpdaterNext ==
    \/ \E auto \in BOOLEAN : UpdaterStart(auto)
    \/ RecvCheckForUpdates
    \/ \E res \in {"err", "none"} \cup Releases : CheckUpdatesResult(res)
    \/ \E release \in Releases : RecvApplyUpdate(release)
    \/ RecvCancelUpdate
    \/ RecvShutdown
    \/ \E ok \in BOOLEAN : ApplyStage(ok)
    \/ \E ok \in BOOLEAN : VerifyInstallation(ok)
    \/ \E ok \in BOOLEAN : RollBack(ok)
    \/ \E ok \in BOOLEAN : CleanupBackups(ok)
    \/ ApplyUpdateFailed

SpecUpdater == InitDiscovery /\ [][UpdaterNext]_vars

\* ================================================================ claims
Handlers == 1..Len(handlers)
AllHandlersFinished == \A i \in Handlers : HandlerFinished(i)
ReturnedOk == sf.pc = "returned" /\ sf.result.status = "ok"
Received == dest[SendFileName]

\* The offsets of the file that handler i has written so far.
WrittenBy(i) ==
    handlers[i].start_pos..(handlers[i].start_pos + handlers[i].bytes_received - 1)

\* Range r is in the tracking record of the transfer with value true.
RecordedTrue(rec, r) == rec.exists /\ r \in DOMAIN rec.parts /\ rec.parts[r]

\* C1 (Spec): round-trip integrity. Once send_file has returned Ok and every
\* receive handler has ended, the received file exists and holds exactly the
\* bytes of the source file.
C1_RoundTrip ==
    (ReturnedOk /\ AllHandlersFinished)
        => (Received.exists /\ Received.bytes = SourceBytes(file_size))

\* C2 (Spec): completeness gate. A handler recomputes the whole-file hash only
\* in a state where every range of the sender's partition is in the tracking
\* record with value true.
C2_CompletenessGate ==
    \A i \in Handlers :
        (handlers[i].pc = "verify_read" /\ hash_record[handlers[i].file_id].exists)
            => \A r \in PartitionRanges :
                   RecordedTrue(tracking[handlers[i].file_id], r)

\* C3 (Spec): when the handlers of all ranges of the transfer have copied their
\* range and returned Ok, the whole-file hash has been checked and the tracking
\* and hash side-records of the transfer are deleted.
C3_AllReceivedThenVerifiedAndCleaned ==
    (Len(handlers) > 0 /\ \A i \in Handlers : handlers[i].pc = "done")
        => /\ hash_checks # << >>
           /\ ~tracking[SendFileId].exists
           /\ ~hash_record[SendFileId].exists

\* Handler i accepted the header and ended before the whole payload arrived.
FailedShort(i) ==
    /\ handlers[i].pc = "failed"
    /\ handlers[i].error = "Connection closed prematurely"

\* No two connections carry the same range.
EachRangeOnce ==
    \A i, j \in 1..Len(conns) :
        (i # j) => <<conns[i].header.start_pos, conns[i].header.end_pos>>
                     # <<conns[j].header.start_pos, conns[j].header.end_pos>>

\* C4 (SpecReceive): once the handler of a range has failed short of its
\* payload, no step of a sibling handler records that range as true, runs the
\* whole-file hash verification or deletes a side-record of the transfer.
C4_FailedRangeBlocksVerification ==
    [][ (EachRangeOnce /\ \E i \in Handlers : FailedShort(i))
          => /\ hash_checks' = hash_checks
             /\ tracking[SendFileId].exists => tracking'[SendFileId].exists
             /\ hash_record[SendFileId].exists => hash_record'[SendFileId].exists
             /\ \A i \in Handlers :
                   FailedShort(i) =>
                       ~RecordedTrue(tracking'[SendFileId], RangeKey(handlers[i]))
      ]_vars

\* The last two connections delivered the same range, whole, one after the
\* other, and both handlers returned Ok.
DeliveredTwice ==
    /\ Len(conns) >= 2
    /\ LET n == Len(conns)
       IN  /\ conns[n].header.start_pos = conns[n - 1].header.start_pos
           /\ conns[n].header.end_pos = conns[n - 1].header.end_pos
           /\ handlers[n].pc = "done"
           /\ handlers[n - 1].pc = "done"

LastKey == <<conns[Len(conns)].header.start_pos, conns[Len(conns)].header.end_pos>>

C6_WrittenBytesKept ==
    \A i \in Handlers : \A p \in WrittenBy(i) :
        /\ Received.exists
        /\ Len(Received.bytes) > p
        /\ Received.bytes[p + 1] = SourceBytes(file_size)[p + 1]

\* k = ceil(x / y)
IsCeil(k, x, y) == k * y >= x /\ (k - 1) * y < x

\* C7 (SpecPartition): the ranges send_file spawns are non-empty, pairwise
\* disjoint, contiguous in stream order from offset 0, at most
\* concurrent_streams in number, end at file_size (none for an empty file),
\* and every range but the last spans ceil(chunk_count / concurrent_streams)
\* whole chunks.
C7_RangePartition ==
    (sf.pc # "call") =>
        LET n == Len(ranges)
        IN  /\ n <= concurrent_streams
            /\ \A i \in 1..n : ranges[i][1] < ranges[i][2]
            /\ \A i, j \in 1..n : (i < j) => ranges[i][2] <= ranges[j][1]
            /\ \A i \in 1..(n - 1) : ranges[i + 1][1] = ranges[i][2]
            /\ (n > 0) => (ranges[1][1] = 0 /\ ranges[n][2] = file_size)
            /\ (n = 0) => (file_size = 0)
            /\ \A i \in 1..(n - 1) :
                  \E cc, cps \in 0..file_size :
                      /\ IsCeil(cc, file_size, chunk_size)
                      /\ IsCeil(cps, cc, concurrent_streams)
                      /\ ranges[i][2] - ranges[i][1] = cps * chunk_size

\* C7 witness: a partition with fewer ranges than configured streams, of which
\* the last is shorter than the others and ends inside a chunk.
C7_Witness ==
    /\ sf.pc # "call"
    /\ Len(ranges) >= 2
    /\ Len(ranges) < concurrent_streams
    /\ ranges[Len(ranges)][2] - ranges[Len(ranges)][1] < ranges[1][2] - ranges[1][1]
    /\ file_size % chunk_size # 0

\* C8 (Spec): the events of a successful loopback send of a non-empty file are
\* one Started, then one or more Progress with increasing bytes_transferred,
\* then exactly one Completed with bytes_transferred = file_size.
C8_EventOrder ==
    (progress_callback /\ file_size > 0 /\ ReturnedOk /\ AllHandlersFinished)
        => LET n == Len(events)
           IN  /\ n >= 3
               /\ events[1].type = "Started"
               /\ events[n].type = "Completed"
               /\ events[n].bytes = file_size
               /\ \A k \in 2..(n - 1) : events[k].type = "Progress"
               /\ \A k \in 2..(n - 2) : events[k].bytes < events[k + 1].bytes

\* The terminal events send_file itself has emitted.
TerminalEvents ==
    SelectSeq(events, LAMBDA e : e.by = "send_file" /\ e.type \in {"Completed", "Failed"})

TaskEnded(i) == tasks[i].pc \in {"ok", "err", "panic"}
TaskFailed(i) == tasks[i].pc \in {"err", "panic"}

\* One entry per failed stream among the first k, in stream order.
RECURSIVE FailedEntries(_)
FailedEntries(k) ==
    IF k = 0 THEN << >>
    ELSE IF tasks[k].pc = "err"
         THEN Append(FailedEntries(k - 1), [stream |-> k - 1, what |-> "failed"])
    ELSE IF tasks[k].pc = "panic"
         THEN Append(FailedEntries(k - 1), [stream |-> k - 1, what |-> "task panicked"])
    ELSE FailedEntries(k - 1)

\* send_file has spawned its range tasks (it did not return early on the
\* metadata or the hash of the source).
Spawned == sf.next > 0

\* C9 (SpecSend): a send_file that has spawned its range tasks emits its
\* terminal event only after every range task has ended, and emits exactly
\* one: Failed with one entry per failed or panicked stream, and an Err result,
\* if some range task failed; otherwise Completed and Ok(file_id).
C9_OneTerminalEvent ==
    LET failed == \E i \in 1..Len(tasks) : TaskFailed(i)
    IN  /\ Len(TerminalEvents) <= 1
        /\ (sf.pc \in {"return", "returned"} /\ Spawned /\ progress_callback)
              => Len(TerminalEvents) = 1
        /\ (sf.pc \in {"report", "return", "returned"})
              => \A i \in 1..Len(tasks) : TaskEnded(i)
        /\ (Len(TerminalEvents) = 1) =>
              /\ sf.pc \in {"return", "returned"}
              /\ IF failed
                 THEN /\ TerminalEvents[1].type = "Failed"
                      /\ TerminalEvents[1].error = FailedEntries(Len(tasks))
                 ELSE /\ TerminalEvents[1].type = "Completed"
                      /\ TerminalEvents[1].bytes = file_size
        /\ (sf.pc = "returned" /\ Spawned) =>
              IF failed
              THEN sf.result.status = "err"
              ELSE sf.result.status = "ok" /\ sf.result.file_id = SendFileId

\* C9 witness: send_file has returned Err after one stream failed and another
\* panicked, and has emitted Failed with the two entries.
C9_Witness ==
    /\ sf.pc = "returned"
    /\ sf.result.status = "err"
    /\ \E i, j \in 1..Len(tasks) : tasks[i].pc = "err" /\ tasks[j].pc = "panic"
    /\ Len(TerminalEvents) = 1
    /\ Len(TerminalEvents[1].error) = 2

\* C10 (SpecSend): when send_file fails, the error it returns lists every
\* failing stream, one entry per failed range.
C10_ReturnedErrorListsStreams ==
    (sf.pc = "returned" /\ sf.result.status = "err" /\ Spawned)
        => sf.result.streams = FailedEntries(Len(tasks))

\* The task of stream i can take its next step of send_file_range.
CanProceed(i) ==
    \/ ENABLED StreamConnect(i)
    \/ ENABLED StreamSendHeader(i)
    \/ ENABLED StreamSend(i)
    \/ ENABLED StreamFinish(i)

\* The bytes of the source file in the range of task i.
RangeBytes(i) ==
    SubSeq(SourceBytes(file_size), tasks[i].start_pos + 1, tasks[i].end_pos)

\* C11 (SpecSend): the failure of one range task leaves the sibling ranges
\* alone. send_file spawns one task per range of the partition; a step that
\* ends one task with an error changes no other task and no other connection;
\* a task that has not ended can always take its next step, whatever the
\* siblings did; and a task that ended Ok has written its whole range.
C11_SiblingsUnaffected ==
    /\ [](Spawned =>
            /\ Len(tasks) = Len(SendRanges(file_size, chunk_size, concurrent_streams))
            /\ \A j \in 1..Len(tasks) :
                  /\ <<tasks[j].start_pos, tasks[j].end_pos>>
                        = SendRanges(file_size, chunk_size, concurrent_streams)[j]
                  /\ ~TaskEnded(j) => CanProceed(j)
                  /\ tasks[j].pc = "ok" => conns[j].data = RangeBytes(j))
    /\ [][\A i \in 1..Len(tasks) :
            (Len(tasks') = Len(tasks) /\ ~TaskFailed(i) /\ TaskFailed(i)')
                => \A j \in 1..Len(tasks) :
                      (j # i) => (tasks'[j] = tasks[j] /\ conns'[j] = conns[j])]_vars

\* C11 witness: send_file has returned after the connect of one range failed
\* while a sibling range connected and streamed all its bytes.
C11_Witness ==
    /\ sf.pc = "returned"
    /\ \E i, j \in 1..Len(tasks) :
          /\ i < j
          /\ tasks[i].pc = "err" /\ ~conns[i].established
          /\ tasks[j].pc = "ok" /\ conns[j].data = RangeBytes(j)
          /\ Len(RangeBytes(j)) > 0

\* The positions in the callback's log of the Started events of receive handlers.
HandlerStarted ==
    {k \in 1..Len(events) : events[k].type = "Started" /\ events[k].by = "handler"}

\* C12 (SpecReceive): on the receive side Started is emitted at most once per
\* file_id: no two handlers of connections that carry different ranges of the
\* same file_id both emit Started.
C12_ReceiverStartedOnce ==
    \A a, b \in HandlerStarted :
        LET ha == conns[events[a].conn].header
            hb == conns[events[b].conn].header
        IN  (a # b /\ ha.file_id = hb.file_id)
                => <<ha.start_pos, ha.end_pos>> = <<hb.start_pos, hb.end_pos>>

\* Range r is in the tracking record rec with value false.
RecordedFalse(rec, r) == rec.exists /\ r \in DOMAIN rec.parts /\ ~rec.parts[r]

\* C13 (SpecReceive): when the socket of a range connection yields EOF before
\* end - start payload bytes were read, the handler ends with an error, no
\* Completed has been emitted for that connection, and the handler leaves the
\* key of its range in the tracking record with value false.
C13_EofFailsAndKeepsKeyFalse ==
    [][ \A i \in Handlers :
          (EachRangeOnce /\ Len(handlers') = Len(handlers)
             /\ handlers[i].pc = "copy" /\ Remaining(handlers[i]) > 0
             /\ handlers'[i].pc # "copy" /\ handlers'[i].bytes_received = handlers[i].bytes_received)
          => /\ handlers'[i].pc = "failed"
             /\ handlers'[i].error = "Connection closed prematurely"
             /\ \A k \in 1..Len(events') :
                   ~(events'[k].type = "Completed" /\ events'[k].by = "handler"
                       /\ events'[k].conn = i)
             /\ RecordedFalse(tracking'[handlers[i].file_id], RangeKey(handlers[i]))
      ]_vars

\* C14 (SpecCodec): the handler decodes the bytes the sender wrote for a header
\* into the same six field values, and has then consumed exactly the header:
\* the unread rest of the stream is the payload.
C14_HeaderRoundTrip ==
    (codec.pc \in {"started", "failed"} /\ codec.stream = EncodeHeader(codec.header) \o codec.payload)
        => /\ codec.pc = "started"
           /\ codec.result.ok
           /\ codec.result.header = codec.header
           /\ codec.result.pos = Len(codec.stream) - Len(codec.payload)
           /\ SubSeq(codec.stream, codec.result.pos + 1, Len(codec.stream)) = codec.payload

\* C14 witness: a header with a two-byte character in its name and integers of
\* more than one byte was decoded, with a payload that reads like a length.
C14_Witness ==
    /\ codec.pc = "started"
    /\ codec.result.header = codec.header
    /\ codec.header.file_name = <<195, 169>>
    /\ codec.header.file_size = 65537
    /\ codec.header.start_pos = 256
    /\ codec.header.file_hash # << >>
    /\ codec.payload = <<0, 7>>

\* The stream of the connection is a header cut short by at least one byte.
CodecCut ==
    /\ codec.pc # "idle"
    /\ Len(codec.stream) < Len(EncodeHeader(codec.header))
    /\ codec.stream = SubSeq(EncodeHeader(codec.header), 1, Len(codec.stream))

\* C15 (SpecCodec): a header cut short anywhere is never decoded: the handler
\* ends with the end-of-stream error, holds no header value, has emitted no
\* event and has created no side-record and no destination file.
C15_TruncatedHeaderFails ==
    (CodecCut /\ codec.pc # "sent")
        => /\ codec.pc = "failed"
           /\ ~codec.result.ok
           /\ codec.result.error = "early eof"
           /\ codec.result.header = NoDecoded
           /\ events = << >>
           /\ \A f \in FileIds : ~tracking[f].exists /\ ~hash_record[f].exists
           /\ \A f \in FileNames : ~dest[f].exists

\* C15 witness: a header that lacks only its last byte was read and refused.
C15_Witness ==
    /\ CodecCut
    /\ Len(codec.stream) = Len(EncodeHeader(codec.header)) - 1
    /\ codec.header.file_hash # << >>
    /\ codec.pc = "failed"
    /\ progress_callback

\* The steps of the handler task of connection i.
HandlerActs(i) ==
    \/ ReadHeader(i) \/ StoreHash(i) \/ RegExists(i) \/ RegRead(i) \/ RegWrite(i)
    \/ PrepExists(i) \/ CreateFile(i) \/ OpenFile(i) \/ SetLen(i) \/ TakeTryLock(i)
    \/ PopBuffer(i) \/ GiveTryLock(i) \/ PushBuffer(i) \/ CopyChunk(i)
    \/ CopyEof(i) \/ CopyDone(i) \/ FinExists(i) \/ FinRead(i) \/ FinWrite(i)
    \/ VerifyHash(i) \/ VerifyRead(i) \/ RemoveTracking(i) \/ RemoveHash(i)

\* The handler task of connection i was spawned and has not returned.
InFlight(i) == ~(handlers[i].pc \in {"none", "done", "failed"})

\* A step of stop_server or the exit of the accept loop.
StopStep == server' # server

\* C16 (SpecStop): stop_server never cancels an in-flight transfer: neither
\* stop_server nor the exit of the accept loop changes a handler, and a handler
\* in flight can go on with its next step whether or not the server was
\* stopped, until it returns by itself.
C16_StopKeepsHandlersRunning ==
    /\ [][StopStep => (handlers' = handlers /\ conns' = conns /\ disk_vars' = disk_vars)]_vars
    /\ [](\A i \in Handlers : InFlight(i) => ENABLED HandlerActs(i))

\* C16 witness: the accept loop has exited on the shutdown signal while a
\* handler was in its copy loop, and that handler has since returned Ok.
C16_Witness ==
    /\ ~server.accepting
    /\ \E i \in Handlers :
          /\ handlers[i].pc = "done"
          /\ handlers[i].bytes_received > 0
          /\ \E j \in Handlers : j # i /\ handlers[j].pc = "copy"

\* C17 (SpecStopFair): stop_server returns without waiting for the handlers
\* in flight (its step is enabled whatever they do); once the shutdown signal
\* is in the channel the accept loop eventually exits; and after it has exited
\* no handler is spawned for a connection.
C17_StopReturnsAndLoopExits ==
    /\ []((server.stop_calls < MaxStopCalls) => ENABLED StopServer)
    /\ []((server.signal > 0) => <>(~server.accepting))
    /\ [][(~server.accepting) =>
            /\ \A i \in Handlers : (handlers[i].pc = "none") => (handlers'[i].pc = "none")
            /\ \A i \in 1..Len(handlers') : (i > Len(handlers)) => (handlers'[i].pc = "none")
         ]_vars

\* C17 witness: stop_server has returned while a handler was in flight, the
\* accept loop has exited, and a connection that arrived afterwards has no
\* handler.
C17_Witness ==
    /\ ~server.accepting
    /\ server.stop_calls > 0
    /\ \E i, j \in Handlers :
          /\ InFlight(i)
          /\ handlers[j].pc = "none" /\ conns[j].established

\* C18 (SpecReceive): in every reachable state the buffer pool holds at most
\* BUFFER_POOL_SIZE buffers and every buffer in it has length chunk_size.
C18_PoolCapacity ==
    /\ Len(buffer_pool) <= BUFFER_POOL_SIZE
    /\ \A k \in 1..Len(buffer_pool) : buffer_pool[k] = chunk_size

\* C19 (SpecDiscovery): in every reachable state the peer registry has no
\* entry under the local node's id and no entry whose node has that id.
C19_LocalNodeNeverRegistered ==
    \A k \in DOMAIN discovered_nodes :
        k # LocalId /\ discovered_nodes[k].node.id # LocalId

\* The local node's own advertisement was resolved while a peer is registered.
C19_Witness ==
    /\ last_resolved[LocalId] # Never
    /\ DOMAIN discovered_nodes # {}

\* C20 (SpecDiscovery): every node get_discovered_nodes returns was last
\* resolved at most 2 * 60 = 120 s before the call, and a peer whose last
\* resolved advertisement is more than 120 s old at the call is neither in the
\* result nor in the registry after the call.
C20_ExpiryAtTwiceTtl ==
    [][(get_nodes.pc = "lock" /\ get_nodes.pc' = "idle") =>
         /\ \A n \in get_nodes.result' :
               /\ last_resolved[n.id] # Never
               /\ get_nodes.now - last_resolved[n.id] <= 120
         /\ \A id \in AllIds :
               (last_resolved[id] # Never /\ get_nodes.now - last_resolved[id] > 120)
                  => /\ \A n \in get_nodes.result' : n.id # id
                     /\ id \notin DOMAIN discovered_nodes']_vars

\* A call returned one peer and dropped another one, resolved 121 s before.
C20_Witness ==
    /\ get_nodes.returned
    /\ get_nodes.pc = "idle"
    /\ \E n \in get_nodes.result : get_nodes.now - last_resolved[n.id] <= 120
    /\ \E id \in NodeIds :
          /\ last_resolved[id] # Never
          /\ get_nodes.now - last_resolved[id] = 121
          /\ id \notin DOMAIN discovered_nodes
          /\ \A n \in get_nodes.result : n.id # id

\* C21 (SpecRefresh): a peer whose advertisement is resolved every 50 s is in
\* the result of every get_discovered_nodes call made after its first
\* advertisement, whatever the listener handles for other peers in between.
C21_RefreshedPeerStaysPresent ==
    [][(get_nodes.pc = "lock" /\ get_nodes.pc' = "idle"
        /\ last_resolved[RefreshedId] # Never)
          => \E n \in get_nodes.result' : n.id = RefreshedId]_vars

\* C22 (SpecDiscovery): a removal notification for a service instance removes
\* the registry entry of the peer that advertised under that instance name and
\* leaves the entry of every other peer as it was.
C22_RemovalHitsOnlyItsPeer ==
    [][\A name \in RemovedNames :
          ServiceRemoved(name) =>
             \A k \in DOMAIN discovered_nodes :
                IF instance_of[k] = name
                THEN k \notin DOMAIN discovered_nodes'
                ELSE /\ k \in DOMAIN discovered_nodes'
                     /\ discovered_nodes'[k] = discovered_nodes[k]]_vars

\* C23 (SpecAddress): the registry has one entry per node id, under that id,
\* with the time of the id's latest advertisement; resolving an advertisement
\* of a peer sets its entry to an address and the port of that advertisement
\* and the current time, and leaves the other entries as they were.
C23_OneEntryPerId ==
    /\ [](\A k \in DOMAIN discovered_nodes :
             /\ discovered_nodes[k].node.id = k
             /\ discovered_nodes[k].timestamp = last_resolved[k])
    /\ [][\A info \in MovedAds :
             (ServiceResolved(info) /\ info.properties["id"].value # LocalId) =>
                LET id == info.properties["id"].value
                IN  /\ DOMAIN discovered_nodes' = DOMAIN discovered_nodes \cup {id}
                    /\ discovered_nodes'[id].node.ip \in info.addresses
                    /\ discovered_nodes'[id].node.port = info.port
                    /\ discovered_nodes'[id].timestamp = clock
                    /\ \A k \in DOMAIN discovered_nodes \ {id} :
                          discovered_nodes'[k] = discovered_nodes[k]]_vars

\* A peer returned by an earlier call at one address is registered at another
\* address and port, with a later time.
C23_Witness ==
    \E n \in get_nodes.result :
        /\ n.id \in DOMAIN discovered_nodes
        /\ discovered_nodes[n.id].node.ip # n.ip
        /\ discovered_nodes[n.id].node.port # n.port
        /\ discovered_nodes[n.id].timestamp > get_nodes.now

\* C24 (SpecMalformed): resolving an advertisement that lacks one of the
\* fields id, name, interface_type, capabilities, version, or a usable value
\* for it, or an address, leaves the peer registry as it was and the listener
\* running, which is what handling the events after it takes.
C24_MalformedAdIgnored ==
    [][\A info \in MalformedAds :
          ServiceResolved(info) =>
             /\ discovered_nodes' = discovered_nodes
             /\ listener.pc' = "running"]_vars

\* An advertisement was dropped and a later one was registered.
C24_Witness ==
    /\ listener.history = "resumed"
    /\ DOMAIN discovered_nodes # {}

\* C25 (SpecAdvertise): once start() has advertised the local record, the
\* record last published has the identity fields of the local node and the
\* time since its last publication stays below the TTL of 60 s.
C25_RepublishedBeforeTtl ==
    advertiser.pc = "sleep" =>
        /\ advertiser.published = LocalAd
        /\ clock - advertiser.published_at < ADVERTISE_TTL

\* C26 (SpecInterface): the class priorities are bridge > ethernet > wifi >
\* loopback > other; get_best_interface returns an interface that is not of
\* the loopback class and whose priority is the highest among the found
\* interfaces not of that class, it fails exactly when there is none, and for
\* lo, en0, en5, wl0 it returns en5.
FoundInterfaces ==
    IF selector.os.ok
    THEN LET found == CollectInterfaces(selector.os.if_addrs, 1)
         IN  {found[k] : k \in 1..Len(found)}
    ELSE {}

C26_BestInterface ==
    selector.pc = "done" =>
        LET candidates == {c \in FoundInterfaces : c.interface_type # "Loopback"}
            result == selector.result
        IN  /\ Priority("Thunderbolt") > Priority("Ethernet")
            /\ Priority("Ethernet") > Priority("Wifi")
            /\ Priority("Wifi") > Priority("Loopback")
            /\ Priority("Loopback") > Priority("Other")
            /\ result.ok <=> candidates # {}
            /\ result.ok =>
                  /\ result.interface \in candidates
                  /\ \A c \in candidates : c.priority <= result.interface.priority
            /\ {selector.os.if_addrs[k].name : k \in 1..Len(selector.os.if_addrs)}
                  = {<<"l", "o">>, <<"e", "n", "0">>, <<"e", "n", "5">>, <<"w", "l", "0">>}
               /\ (\A k \in 1..Len(selector.os.if_addrs) :
                      selector.os.if_addrs[k].ip \in {"host", "loopback"})
                  => result.ok /\ result.interface.name = <<"e", "n", "5">>

\* The call was made for lo, en0, en5, wl0 in that order and returned en5.
C26_Witness ==
    /\ selector.pc = "done"
    /\ selector.os.ok
    /\ Len(selector.os.if_addrs) = 4
    /\ selector.os.if_addrs[1] = [name |-> <<"l", "o">>, ip |-> "loopback"]
    /\ selector.os.if_addrs[2] = [name |-> <<"e", "n", "0">>, ip |-> "host"]
    /\ selector.os.if_addrs[3] = [name |-> <<"e", "n", "5">>, ip |-> "host"]
    /\ selector.os.if_addrs[4] = [name |-> <<"w", "l", "0">>, ip |-> "host"]
    /\ selector.result.ok
    /\ selector.result.interface.name = <<"e", "n", "5">>

\* C27 (Spec): in every state where send_file has returned Ok, the file exists
\* in receive_dir under the sent file's name and its length is file_size.
C27_ReceivedAtReturn ==
    ReturnedOk => (Received.exists /\ Len(Received.bytes) = file_size)

\* C28 (Spec): in every state where send_file has returned Ok and the manager
\* has a progress callback, the last Progress event delivered to the callback
\* carries bytes_transferred equal to file_size.
ProgressEvents == SelectSeq(events, LAMBDA e : e.type = "Progress")

C28_LastProgressIsFileSize ==
    (progress_callback /\ ReturnedOk)
        => /\ ProgressEvents # << >>
           /\ ProgressEvents[Len(ProgressEvents)].bytes = file_size

\* C29 (SpecVersion): two versions with equal major, minor, patch and
\* pre_release compare as equal under == and under cmp whatever their build
\* metadata, and a == b exactly when cmp(a, b) is Equal.
C29_BuildMetadataIgnored ==
    comparison.pc = "done" =>
        LET a == comparison.a
            b == comparison.b
        IN  /\ (/\ a.major = b.major
                /\ a.minor = b.minor
                /\ a.patch = b.patch
                /\ a.pre_release = b.pre_release)
                  => (comparison.eq /\ comparison.cmp = "Equal")
            /\ comparison.eq <=> comparison.cmp = "Equal"

\* C30 (SpecReceive): a Completed event of a receive handler is emitted only
\* after the handler recorded its range as complete: in every state, for each
\* Completed event of a handler, the range of its connection is in the tracking
\* record with value true or the tracking record has been removed.
C30_RecordedBeforeCompleted ==
    \A k \in 1..Len(events) :
        (events[k].type = "Completed" /\ events[k].by = "handler")
            => LET h == handlers[events[k].conn]
               IN  \/ RecordedTrue(tracking[h.file_id], RangeKey(h))
                   \/ ~tracking[h.file_id].exists

\* C31 (SpecReceive): a step of the handler of range [start, end) changes no
\* byte of the destination file outside [start, end); the bytes it reads go to
\* the file at the next offsets of the range, in arrival order; and when its
\* copy loop has ended it has written end - start bytes.
C31_WritesOnlyItsRange ==
    [][\A i \in Handlers :
          (Len(handlers') = Len(handlers) /\ handlers'[i] # handlers[i]
             /\ handlers[i].file_name \in FileNames)
          => LET h == handlers[i]
                 old == dest[h.file_name].bytes
                 new == dest'[h.file_name].bytes
                 n == handlers'[i].bytes_received - h.bytes_received
             IN  /\ \A p \in 1..Len(old) :
                       (p - 1 < h.start_pos \/ p - 1 >= h.end_pos)
                          => (p <= Len(new) /\ new[p] = old[p])
                 /\ \A q \in 1..n :
                       /\ h.start_pos + h.bytes_received + q <= h.end_pos
                       /\ new[h.start_pos + h.bytes_received + q] = conns[i].data[q]
                 /\ handlers'[i].pc = "give" => handlers'[i].bytes_received = h.end_pos - h.start_pos
      ]_vars

\* C32 (SpecAdvertise): once shutdown() has been called, no step publishes the
\* local record again, and a withdrawn record stays withdrawn.
C32_StaysWithdrawn ==
    [][advertiser.shutdown =>
          /\ advertiser.published_at' = advertiser.published_at
          /\ advertiser.registered' => advertiser.registered]_vars

\* C33 (SpecReceive): whenever every handler has ended, on success or on
\* failure, the pool holds its BUFFER_POOL_SIZE buffers again.
C33_BuffersReturned ==
    AllHandlersFinished => Len(buffer_pool) = BUFFER_POOL_SIZE

\* C34 (SpecSendAny): the shared sent-bytes counter never exceeds file_size, and
\* in every state where send_file has emitted Completed the counter equals
\* file_size and every byte of the file was written to exactly one connection.
SentCopies(p) ==
    {<<i, k>> \in {<<i, k>> \in (1..Len(conns)) \X (1..file_size) : k <= Len(conns[i].data)} :
        conns[i].header.sent /\ conns[i].header.start_pos + k = p}

C34_CounterIsFileSize ==
    /\ total_bytes_sent <= file_size
    /\ (\E k \in 1..Len(events) : events[k].type = "Completed" /\ events[k].by = "send_file")
          => /\ total_bytes_sent = file_size
             /\ \A p \in 1..file_size : Cardinality(SentCopies(p)) = 1

\* C35 (SpecSend): the progress sampler emits no Progress event once send_file
\* has emitted the Completed or Failed event of the transfer.
C35_NoProgressAfterFinal ==
    \A k \in 1..Len(events) : \A j \in 1..Len(events) :
        (/\ events[k].by = "send_file"
         /\ events[k].type \in {"Completed", "Failed"}
         /\ events[j].by = "sampler"
         /\ events[j].type = "Progress") => j < k

\* C36 (SpecReceive): when every range of the transfer is delivered once, the
\* whole-file hash verification runs at most once.
C36_VerifiedAtMostOnce ==
    EachRangeOnce => Len(hash_checks) <= 1

\* C37 (SpecStart): a start_server call that fails leaves the server started
\* earlier as it was: the call changes neither the sender held for stop_server
\* nor the channel of the accept loop, and as long as stop_server has not been
\* called the loop keeps accepting.
C37_FailedStartKeepsServer ==
    /\ [](server.stop_calls = 0 => Accepting(server))
    /\ [][StartServerFails =>
            /\ server'.sender_live = server.sender_live
            /\ server'.closed = server.closed]_vars

\* C38 (SpecIsolation): a step of a handler of one file_id changes neither the
\* tracking record nor the hash record of another file_id, nor a byte that a
\* handler of another file_id has written to its destination file.
C38_TransfersIsolated ==
    [][\A i \in Handlers :
          (Len(handlers') = Len(handlers) /\ handlers'[i] # handlers[i]
             /\ handlers[i].file_id \in FileIds)
          => /\ \A f \in FileIds \ {handlers[i].file_id} :
                    /\ tracking'[f] = tracking[f]
                    /\ hash_record'[f] = hash_record[f]
             /\ \A j \in Handlers :
                    (handlers[j].file_id \in FileIds \ {handlers[i].file_id})
                    => LET old == dest[handlers[j].file_name].bytes
                           new == dest'[handlers[j].file_name].bytes
                       IN  \A p \in WrittenBy(j) :
                              p + 1 <= Len(old) => (p + 1 <= Len(new) /\ new[p + 1] = old[p + 1])
      ]_vars

\* C39 (SpecUpdater): when an apply_update has failed and its caller has
\* handled the failure, the status is UpdateFailed for the version that was
\* being applied, for an ApplyUpdate command and for an automatic update.
C39_FailedUpdateIsReported ==
    (updater.pc = "idle" /\ updater.outcome = "failed")
        => updater.status = Status("UpdateFailed", updater.release)

====
